---- MODULE Spec2Model ----
(***************************************************************************)
(* Model of the ChemGame web client's session-scoped state:                *)
(*   - AuthProvider   (user, session, loading)                             *)
(*   - GameProvider   (three catalogue maps, cataloguesLoaded, lastRefresh)*)
(*   - GameClient     (catalogue reads, the five resolver RPCs,            *)
(*                     runResolvers)                                       *)
(* Every await in the source is a suspension point: the code before the    *)
(* await and the code after it are separate atomic steps, and the backend  *)
(* answers in any order.                                                   *)
(***************************************************************************)
EXTENDS Integers, Sequences, FiniteSets, TLC

(***************************************************************************)
(* Bounds.                                                                 *)
(***************************************************************************)
\* refreshAll() invocations in the refresh-only specification
MaxSweeps == 2
\* loadCatalogues() invocations in flight in the cache specification
MaxLoads == 2
\* rows in one catalogue read
MaxRows == 2
\* the same, for the specification that runs everything together
JointSweeps == 1
JointLoads == 1
\* the per-session load counter saturates here ("two or more")
LoadCountCap == 2
\* checkPlayer() calls of one ProtectedRoute in flight for one account
MaxChecks == 1
\* the largest amount of a material stack and the largest demand of a buyer
MaxAmount == 2
\* dispose_resources calls in flight
MaxDisposes == 1
\* loadData calls in flight that a page's own handlers may bring about
MaxReloads == 1
\* game-action RPCs (sell, build, demolish, install, uninstall, run) in flight
MaxCalls == 1
\* handlers and detail fetches of ProcessesPage waiting at an await
MaxPending == 2
\* the same where running and uninstalling are looked at
RunPending == 1
(***************************************************************************)
(* Values.                                                                 *)
(***************************************************************************)
\* user === null
NoUser == [uid |-> 0, obj |-> 0]
\* the account, and the object references under which the SDK hands out its
\* User (React compares the user state with Object.is)
Uids == {1}
ObjRefs == {1, 2}
UserObjs == [uid : Uids, obj : ObjRefs]
\* a second account, one that has no row in the players table
NoRecordUids == {2}
Newcomers == [uid : NoRecordUids, obj : {1}]

\* ids the backend's catalogue tables may contain; LookupIds adds one that no
\* read ever returns
CatIds == {1, 2}
LookupIds == CatIds \cup {3}
\* Map.get of a missing key
NotFound == [id |-> 0, name |-> "undefined"]
\* no successful read yet
NoRead == [known |-> FALSE, rows |-> << >>]
Kinds == {"buildings", "process", "materials"}

GoodRead(rows) == [known |-> TRUE, rows |-> rows]

\* what the supabase call does: rows, an error object, or a thrown error
Outcomes == {"data", "error", "throw"}

\* a sequence of calls in flight without its entry i
Without(q, i) == SubSeq(q, 1, i - 1) \o SubSeq(q, i + 1, Len(q))

VARIABLES
  user, session, loading, sessionPending,
  buildingsCatalogue, processCatalogue, materialsCatalogue,
  cataloguesLoaded, lastRefresh,
  loads, sweeps,
  ev, lastGood, loadsThisSession,
  pathname, playerExists, checkingPlayer, playerChecks,
  loadData, viewLoading, viewError, player, materials, buildings,
  selectedMaterial, disposeAmount, disposeCalls,
  buyers, selectedBuyer, sellAmount, status,
  rpcCalls, selectedBuilding, selectedCatalogueBuilding,
  allowedProcesses, selectedProcess, processDetails, runCount, pending,
  reloadOrder

vars == <<user, session, loading, sessionPending,
          buildingsCatalogue, processCatalogue, materialsCatalogue,
          cataloguesLoaded, lastRefresh, loads, sweeps,
          ev, lastGood, loadsThisSession,
          pathname, playerExists, checkingPlayer, playerChecks,
          loadData, viewLoading, viewError, player, materials, buildings,
          selectedMaterial, disposeAmount, disposeCalls,
          buyers, selectedBuyer, sellAmount, status,
          rpcCalls, selectedBuilding, selectedCatalogueBuilding,
          allowedProcesses, selectedProcess, processDetails, runCount,
          pending, reloadOrder>>

authVars == <<user, session, loading, sessionPending>>
cacheVars == <<buildingsCatalogue, processCatalogue, materialsCatalogue,
               cataloguesLoaded>>
loadVars == <<loads, lastGood, loadsThisSession>>
\* ProtectedRoute's state and the location
routeVars == <<pathname, playerExists, checkingPlayer, playerChecks>>
\* the state of the page component the Outlet shows
viewVars == <<loadData, viewLoading, viewError, player, materials, buildings,
              selectedMaterial, disposeAmount, disposeCalls,
              buyers, selectedBuyer, sellAmount, status,
              rpcCalls, selectedBuilding, selectedCatalogueBuilding,
              allowedProcesses, selectedProcess, processDetails, runCount,
              pending, reloadOrder>>
\* what a page's loadData sets
fetchVars == <<loadData, viewLoading, viewError, player, materials, buildings,
               buyers, reloadOrder>>
\* what a page's controls set
formVars == <<selectedMaterial, disposeAmount, disposeCalls,
              selectedBuyer, sellAmount, status,
              rpcCalls, selectedBuilding, selectedCatalogueBuilding,
              allowedProcesses, selectedProcess, processDetails, runCount,
              pending>>
\* the game-action call in flight and the controls of BuildingsPage and
\* ProcessesPage
pageVars == <<rpcCalls, selectedBuilding, selectedCatalogueBuilding,
              allowedProcesses, selectedProcess, processDetails, runCount,
              pending>>

(***************************************************************************)
(* GameClient: every resolver and every catalogue read wraps the supabase  *)
(* call in try/catch and returns {success, data | error}.                  *)
(***************************************************************************)
ApiResult(outcome, data) ==
  IF outcome = "data" THEN [success |-> TRUE, data |-> data]
                      ELSE [success |-> FALSE, data |-> <<>>]

\* the order of the awaits in runResolvers
RunResolversSwapped ==
  << "resolve_scheduled_cash", "finish_construction",
     "resolve_building_processes", "finish_storage_extension_construction",
     "resolve_process_runs" >>

runResolvers ==
  << "resolve_scheduled_cash", "finish_construction",
     "finish_storage_extension_construction", "resolve_building_processes",
     "resolve_process_runs" >>

\* mutants of NextToIssue: stop at the first failure; do not await
NextToIssueAbort(issued, result) ==
  IF result.success /\ Len(issued) < Len(runResolvers)
    THEN << runResolvers[Len(issued) + 1] >>
    ELSE << >>

NextToIssueNoAwait(issued, result) ==
  IF Len(issued) + 1 < Len(runResolvers)
    THEN << runResolvers[Len(issued) + 1], runResolvers[Len(issued) + 2] >>
    ELSE IF Len(issued) < Len(runResolvers)
      THEN << runResolvers[Len(issued) + 1] >>
      ELSE << >>

\* runResolvers after an await returns: the result is dropped and the next
\* resolver, if any, is called
NextToIssue(issued, result) ==
  IF Len(issued) < Len(runResolvers)
    THEN << runResolvers[Len(issued) + 1] >>
    ELSE << >>

\* mutant of StampsAfterSweep: no timestamp when every resolver failed
StampsAfterSweepOnSuccess(sw) == IF sw.allFailed THEN 0 ELSE 1

\* mutant of StampsAfterSweep: a refreshAll() that was called while another
\* was in flight is dropped without a timestamp
StampsAfterSweepUnlessOverlap(sw) == IF sw.overlap THEN 0 ELSE 1

\* refreshAll after runResolvers resolved: one setLastRefresh(new Date())
StampsAfterSweep(sw) == 1

\* new Date(): a value different from the one before (null is 0)
NewDate(prev) == prev + 1

(***************************************************************************)
(* GameProvider: catalogue maps.                                           *)
(***************************************************************************)
\* a catalogue row; catalogue entries are immutable reference records, so a
\* row is determined by its id (building_id, proc_id or res_id)
Row(i) == [id |-> i, name |-> IF i = 1 THEN "a" ELSE "b"]

DistinctIds(s) == \A i, j \in 1..Len(s) : i # j => s[i].id # s[j].id

\* the row arrays a select('*') may return: any rows in any order, ids unique
Reads(maxRows) ==
  { s \in UNION { [1..n -> {Row(i) : i \in CatIds}] : n \in 0..maxRows } :
      DistinctIds(s) }

\* the backend seeded with one catalogue that does not change
SeededReads == { << Row(1) >> }

\* what a get_..._catalogue() call may resolve to
ReadResults(reads) ==
  { ApiResult(o, d) : o \in Outcomes, d \in reads }

\* new Map()
EmptyMap == << >>

\* mutant of MapSet: the row is stored under its position, not under its id
MapSetByIndex(m, row) ==
  [k \in DOMAIN m \cup {Cardinality(DOMAIN m) + 1} |->
     IF k = Cardinality(DOMAIN m) + 1 THEN row ELSE m[k]]

\* map.set(row.id, row)
MapSet(m, row) ==
  [k \in DOMAIN m \cup {row.id} |-> IF k = row.id THEN row ELSE m[k]]

\* data.forEach((r) => map.set(r.id, r))
RECURSIVE ForEachSet(_, _)
ForEachSet(m, data) ==
  IF data = << >> THEN m ELSE ForEachSet(MapSet(m, Head(data)), Tail(data))

\* mutant of NewCatalogue: the rows are added to the old map
NewCatalogueMerged(old, data) == ForEachSet(old, data)

\* mutant of NewCatalogue: the map is set before its last row is added
NewCataloguePartial(old, data) ==
  ForEachSet(EmptyMap, IF data = << >> THEN data
                                       ELSE SubSeq(data, 1, Len(data) - 1))

\* const map = new Map(); data.forEach(...); setXCatalogue(map)
NewCatalogue(old, data) == ForEachSet(EmptyMap, data)

\* mutant of AfterRead: a failed read empties the map
AfterReadDropOnFailure(old, result) ==
  IF result.success THEN NewCatalogue(old, result.data) ELSE EmptyMap

\* mutant of AfterRead: the map built from the rows is never set
AfterReadIgnored(old, result) == old

\* if (result.success && result.data) { ... setXCatalogue(map) }
AfterRead(old, result) ==
  IF result.success THEN NewCatalogue(old, result.data) ELSE old

\* setCataloguesLoaded(true), reached whatever the three results were
LoadedAfter(result) == TRUE

\* Map.get
Get(map, id) == IF id \in DOMAIN map THEN map[id] ELSE NotFound

Cat(kind) ==
  CASE kind = "buildings" -> buildingsCatalogue
    [] kind = "process" -> processCatalogue
    [] kind = "materials" -> materialsCatalogue

TotalLoads == loads["buildings"] + loads["process"] + loads["materials"]

Ids(rows) == { rows[i].id : i \in 1..Len(rows) }

\* the last step: a catalogue read that was answered (ok: it succeeded;
\* dropped: the map it replaced had an id the read does not have), a clear
\* (ok: something was cached), or anything else
Ev(op, kind, ok, dropped) ==
  [op |-> op, kind |-> kind, ok |-> ok, dropped |-> dropped]
Other == Ev("other", "-", TRUE, FALSE)
ReadEv(kind, old, result) ==
  Ev("read", kind, result.success,
     result.success /\ (DOMAIN old \ Ids(result.data)) # {})

(***************************************************************************)
(* App routes and ProtectedRoute.                                          *)
(***************************************************************************)
\* <Route path=...> under <Route element={<ProtectedRoute />}>
ProtectedPaths ==
  { "/dashboard", "/buildings", "/processes", "/process-encyclopedia",
    "/npc-buyers", "/market", "/debug" }

\* mutant of ProtectedRouteRender: the !user test is missing
ProtectedRouteRenderNoUserTest(u, authLoading, checking, exists, path) ==
  IF authLoading \/ checking \/ (u # NoUser /\ exists = "null")
    THEN "loading"
    ELSE IF exists = "false" /\ path # "/onboarding"
      THEN "onboarding"
      ELSE "outlet"

\* what ProtectedRoute returns
ProtectedRouteRender(u, authLoading, checking, exists, path) ==
  IF authLoading \/ checking \/ (u # NoUser /\ exists = "null")
    THEN "loading"
    ELSE IF u = NoUser
      THEN "login"
      ELSE IF exists = "false" /\ path # "/onboarding"
        THEN "onboarding"
        ELSE "outlet"

\* playerChecks: the checkPlayer() calls in flight, each the uid of the
\* account whose token its get_player_data() request carries
Route(path, exists, checking, checks) ==
  [pathname |-> path, playerExists |-> exists, checkingPlayer |-> checking,
   playerChecks |-> checks]

\* ProtectedRoute is not mounted: the location is a public page
Unmounted(path) == Route(path, "null", FALSE, << >>)

\* the route after a render of ProtectedRoute with these values. effect: the
\* [user, authLoading, pathname] effect runs (a dependency changed, or the
\* component has just mounted) and starts checkPlayer. <Navigate to="/login">
\* unmounts ProtectedRoute; <Navigate to="/onboarding"> leaves it for a path
\* that only the "*" route matches, which navigates to /dashboard, where a
\* new ProtectedRoute mounts and starts its own check. Answers to the checks
\* of an unmounted ProtectedRoute are ignored.
Settle(u, authLoading, path, exists, checking, checks, effect) ==
  IF path \notin ProtectedPaths
    THEN Unmounted(path)
    ELSE LET starts == effect /\ u # NoUser /\ ~authLoading
             checking1 == checking \/ starts
             checks1 == IF starts THEN Append(checks, u.uid) ELSE checks
             r == ProtectedRouteRender(u, authLoading, checking1, exists, path)
         IN CASE r = "login" -> Unmounted("/login")
              [] r = "onboarding" ->
                   Route("/dashboard", "null", TRUE, << u.uid >>)
              [] OTHER -> Route(path, exists, checking1, checks1)

\* the page the <Outlet /> shows, "none" when ProtectedRoute shows none
Outlet ==
  IF pathname \in ProtectedPaths
     /\ ProtectedRouteRender(user, loading, checkingPlayer, playerExists,
                             pathname) = "outlet"
    THEN pathname
    ELSE "none"

(***************************************************************************)
(* Pages: DashboardPage, NpcBuyersPage and the other pages' loadData.      *)
(***************************************************************************)
\* the gameClient calls a page's loadData awaits, in order; the calls of a
\* Promise.all are awaited together (DebugPage's effect starts loadEvents
\* and loadProcessSchedule together)
LoadDataCalls(path) ==
  CASE path = "/dashboard" ->
         << {"get_player_data"}, {"get_player_materials"},
            {"get_player_expansions"} >>
    [] path = "/buildings" ->
         << {"get_player_buildings"}, {"get_player_data"},
            {"get_storage_extensions_catalogue"},
            {"get_player_storage_extensions"},
            {"get_player_technology_inventory"} >>
    [] path = "/processes" ->
         << {"get_player_buildings"}, {"get_player_technology_inventory"} >>
    [] path = "/npc-buyers" -> << {"get_npc_buyers", "get_player_materials"} >>
    [] path = "/market" ->
         << {"get_player_data", "get_market_sell_orders",
             "get_player_materials"} >>
    [] path = "/debug" -> << {"get_events_schedule", "get_process_schedule"} >>
    [] OTHER -> << >>

\* the calls whose failure makes loadData call setError
ErrorOnFailure(path) ==
  CASE path = "/dashboard" -> {"get_player_data"}
    [] path = "/buildings" -> {"get_player_buildings"}
    [] path = "/processes" -> {"get_player_buildings"}
    [] path = "/npc-buyers" -> {"get_npc_buyers"}
    [] path = "/market" -> {"get_player_data", "get_market_sell_orders"}
    [] OTHER -> {}

\* the pages whose loadData calls setLoading and setError
HasLoadingState(path) ==
  path \in {"/dashboard", "/buildings", "/processes", "/npc-buyers", "/market"}

\* mutant of RefetchesOnRefresh: the dashboard's effect lacks lastRefresh
RefetchesOnRefreshNotDashboard(path) ==
  path \in { "/buildings", "/processes", "/npc-buyers", "/market", "/debug" }

\* the pages whose loading effect has lastRefresh among its dependencies
RefetchesOnRefresh(path) ==
  path \in { "/dashboard", "/buildings", "/processes", "/npc-buyers",
             "/market", "/debug" }

\* loadData(): the call runs up to its first await
StartLoadData(ld) ==
  IF ld = << >> THEN ld ELSE [ld EXCEPT ![1] = @ + 1]

\* a loadData waiting at await i goes on to the next await, or ends
AdvanceLoadData(ld, i) ==
  IF i < Len(ld)
    THEN [ld EXCEPT ![i] = @ - 1, ![i + 1] = @ + 1]
    ELSE [ld EXCEPT ![i] = @ - 1]

RECURSIVE SumSeq(_)
SumSeq(q) == IF q = << >> THEN 0 ELSE Head(q) + SumSeq(Tail(q))

\* a PlayerMaterial row, a PlayerBuilding row, an NpcBuyer row; null
Stack(res, n) == [res_id |-> res, amount |-> n]
NoStack == Stack(0, 0)
PlayerBuilding(id, bid, current, proc, procStatus) ==
  [this_building_id |-> id, building_id |-> bid, b_current_status |-> current,
   b_proc_installed |-> proc, b_proc_status |-> procStatus]
NoBuilding == PlayerBuilding(0, 0, "null", 0, "null")
\* a building at rest: unconfigured without a process, idle with one
Building(bid, proc) ==
  PlayerBuilding(1, bid, IF proc = 0 THEN "unconfigured" ELSE "configured_idle",
                 proc, IF proc = 0 THEN "null" ELSE "idle")
Buyer(res, demand) ==
  [npc_buyer_id |-> 1, buy_res_id |-> res, current_demand |-> demand]
NoBuyer == Buyer(0, 0)

\* useState('1')
InitialAmount == << "1" >>

\* Ghost: the DashboardPage.loadData calls in flight that have not yet
\* received their materials, in the order in which they were started. stage
\* is the await a call waits at; behind says that a call started after it
\* has already set the materials. The calls are followed in the behaviours
\* that start with follows set, and only those of the dashboard.
Reload(i, late) == [stage |-> i, behind |-> late]
Order(follows, calls) == [follows |-> follows, calls |-> calls]
FollowsReloads(order, path) == order.follows /\ path = "/dashboard"
StartReload(order, path) ==
  IF FollowsReloads(order, path)
    THEN [order EXCEPT !.calls = Append(@, Reload(1, FALSE))]
    ELSE order

\* the state of a page that has just mounted at path (its effect has called
\* loadData), and with path "none" the state while no page is mounted
FreshView(path) ==
  [loadData |-> StartLoadData([i \in 1..Len(LoadDataCalls(path)) |-> 0]),
   viewLoading |-> TRUE, viewError |-> FALSE, player |-> FALSE,
   materials |-> << >>, buildings |-> << >>,
   selectedMaterial |-> NoStack,
   disposeAmount |-> InitialAmount, disposeCalls |-> << >>,
   buyers |-> << >>, selectedBuyer |-> NoBuyer,
   sellAmount |-> InitialAmount, status |-> "null",
   rpcCalls |-> << >>, selectedBuilding |-> NoBuilding,
   selectedCatalogueBuilding |-> NotFound, allowedProcesses |-> << >>,
   selectedProcess |-> NotFound, processDetails |-> 0,
   runCount |-> InitialAmount, pending |-> << >>]

(***************************************************************************)
(* Text fields: the amount inputs hold strings, here sequences of          *)
(* characters.                                                             *)
(***************************************************************************)
DigitChars == << "0", "1", "2", "3", "4", "5", "6", "7", "8", "9" >>

IsDigit(c) == \E d \in 1..Len(DigitChars) : DigitChars[d] = c

DigitValue(c) == (CHOOSE d \in 1..Len(DigitChars) : DigitChars[d] = c) - 1

\* the longest prefix of s made of digits
RECURSIVE LeadingDigits(_)
LeadingDigits(s) ==
  IF s = << >> \/ ~IsDigit(Head(s))
    THEN << >>
    ELSE << Head(s) >> \o LeadingDigits(Tail(s))

RECURSIVE DecimalValue(_, _)
DecimalValue(ds, acc) ==
  IF ds = << >> THEN acc
                ELSE DecimalValue(Tail(ds), acc * 10 + DigitValue(Head(ds)))

RECURSIVE SkipSpaces(_)
SkipSpaces(s) ==
  IF s # << >> /\ Head(s) = " " THEN SkipSpaces(Tail(s)) ELSE s

\* a number, and NaN
Number(n) == [nan |-> FALSE, val |-> n]
NaN == [nan |-> TRUE, val |-> 0]

\* parseInt(s) of a decimal text: leading blanks are skipped, a sign is
\* read, then digits up to the first character that is none; NaN when
\* there is no digit (the texts the model types have no "0x" prefix)
parseInt(s) ==
  LET t == SkipSpaces(s)
      signed == t # << >> /\ Head(t) \in {"-", "+"}
      ds == LeadingDigits(IF signed THEN Tail(t) ELSE t)
  IN IF ds = << >>
       THEN NaN
       ELSE IF signed /\ Head(t) = "-"
         THEN Number(0 - DecimalValue(ds, 0))
         ELSE Number(DecimalValue(ds, 0))

RECURSIVE NatString(_)
NatString(n) ==
  IF n < Len(DigitChars)
    THEN << DigitChars[n + 1] >>
    ELSE NatString(n \div Len(DigitChars))
           \o << DigitChars[(n % Len(DigitChars)) + 1] >>

\* String(n) of an integer
String(n) == IF n < 0 THEN << "-" >> \o NatString(0 - n) ELSE NatString(n)

\* what the user may type into an amount field
Typed ==
  { << >>, << "x" >>, << "0" >>, << "2" >>, << "9" >>, << "-", "1" >>,
    << "1", ".", "5" >>, << " ", "2", "x" >> }

(***************************************************************************)
(* The backend's player-owned rows.                                        *)
(***************************************************************************)
\* ids of the seeded catalogue
SeededIds == UNION { Ids(rows) : rows \in SeededReads }

\* what select('*') on player_materials_inventory may return: the player
\* owns no stack, or one stack of a catalogued material
Inventories(ids) ==
  { << >> } \cup { << Stack(r, n) >> : r \in ids, n \in 1..MaxAmount }

\* what get_player_buildings may return: no building, or one building of a
\* catalogued kind with no process or a catalogued process installed
PlayerBuildings(ids) ==
  { << >> } \cup { << Building(b, proc) >> : b \in ids, proc \in ids \cup {0} }

\* the backend seeded with one stack that does not change
SeededInventory == { << Stack(r, 1) >> : r \in SeededIds }

\* the backend seeded with one building, empty or with an idle process
SeededBuildings ==
  { << PlayerBuilding(1, 1, "unconfigured", 0, "null") >>,
    << PlayerBuilding(1, 1, "configured", 1, "idle") >> }

\* the backend seeded with one buyer whose demand does not change
SeededBuyers == { << Buyer(r, 1) >> : r \in SeededIds }

\* what get_npc_buyers may return: no buyer, or one buyer for a material
NpcBuyers(ids) ==
  { << >> } \cup { << Buyer(r, d) >> : r \in ids, d \in 0..MaxAmount }

(***************************************************************************)
(* Initial state: AuthProvider and GameProvider mounted, the mount effects *)
(* have run (getSession() is pending, the [user] effect has cleared the    *)
(* already empty maps); the app was opened on the login page.              *)
(***************************************************************************)
Start(follows) ==
  /\ user = NoUser
  /\ session = NoUser
  /\ loading = TRUE
  /\ sessionPending = TRUE
  /\ buildingsCatalogue = EmptyMap
  /\ processCatalogue = EmptyMap
  /\ materialsCatalogue = EmptyMap
  /\ cataloguesLoaded = FALSE
  /\ lastRefresh = 0
  /\ loads = [k \in Kinds |-> 0]
  /\ sweeps = << >>
  /\ ev = Other
  /\ lastGood = [k \in Kinds |-> NoRead]
  /\ loadsThisSession = 0
  /\ pathname = "/login"
  /\ playerExists = "null"
  /\ checkingPlayer = FALSE
  /\ playerChecks = << >>
  /\ loadData = FreshView("none").loadData
  /\ reloadOrder = Order(follows, << >>)
  /\ viewLoading = FreshView("none").viewLoading
  /\ viewError = FreshView("none").viewError
  /\ player = FreshView("none").player
  /\ materials = FreshView("none").materials
  /\ buildings = FreshView("none").buildings
  /\ selectedMaterial = FreshView("none").selectedMaterial
  /\ disposeAmount = FreshView("none").disposeAmount
  /\ disposeCalls = FreshView("none").disposeCalls
  /\ buyers = FreshView("none").buyers
  /\ selectedBuyer = FreshView("none").selectedBuyer
  /\ sellAmount = FreshView("none").sellAmount
  /\ status = FreshView("none").status
  /\ rpcCalls = FreshView("none").rpcCalls
  /\ selectedBuilding = FreshView("none").selectedBuilding
  /\ selectedCatalogueBuilding = FreshView("none").selectedCatalogueBuilding
  /\ allowedProcesses = FreshView("none").allowedProcesses
  /\ selectedProcess = FreshView("none").selectedProcess
  /\ processDetails = FreshView("none").processDetails
  /\ runCount = FreshView("none").runCount
  /\ pending = FreshView("none").pending

Init == Start(FALSE)

\* the same state, the dashboard's loadData calls followed from here on
InitFollowed == Start(TRUE)

(***************************************************************************)
(* What a state change re-renders: ProtectedRoute, and the page it shows.  *)
(***************************************************************************)
\* the page component follows the Outlet: a page that is no longer shown
\* is unmounted and loses its state, a page newly shown mounts and its
\* effect calls loadData
ViewFollows ==
  IF Outlet' = Outlet
    THEN UNCHANGED viewVars
    ELSE LET v == FreshView(Outlet') IN
         /\ loadData' = v.loadData
         /\ reloadOrder' = StartReload(Order(reloadOrder.follows, << >>),
                                       Outlet')
         /\ viewLoading' = v.viewLoading
         /\ viewError' = v.viewError
         /\ player' = v.player
         /\ materials' = v.materials
         /\ buildings' = v.buildings
         /\ selectedMaterial' = v.selectedMaterial
         /\ disposeAmount' = v.disposeAmount
         /\ disposeCalls' = v.disposeCalls
         /\ buyers' = v.buyers
         /\ selectedBuyer' = v.selectedBuyer
         /\ sellAmount' = v.sellAmount
         /\ status' = v.status
         /\ rpcCalls' = v.rpcCalls
         /\ selectedBuilding' = v.selectedBuilding
         /\ selectedCatalogueBuilding' = v.selectedCatalogueBuilding
         /\ allowedProcesses' = v.allowedProcesses
         /\ selectedProcess' = v.selectedProcess
         /\ processDetails' = v.processDetails
         /\ runCount' = v.runCount
         /\ pending' = v.pending

SetRoute(r) ==
  /\ \A uid \in Uids \cup NoRecordUids :
       Len(SelectSeq(r.playerChecks, LAMBDA c : c = uid)) <= MaxChecks
  /\ pathname' = r.pathname
  /\ playerExists' = r.playerExists
  /\ checkingPlayer' = r.checkingPlayer
  /\ playerChecks' = r.playerChecks

\* ProtectedRoute re-renders with the new user and loading values
RouteFollows ==
  /\ SetRoute(Settle(user', loading', pathname, playerExists, checkingPlayer,
                     playerChecks, user' # user \/ loading' # loading))
  /\ ViewFollows

(***************************************************************************)
(* GameProvider: the [user] effect, loadCatalogues.                        *)
(***************************************************************************)
\* mutant of ClearCatalogues: the materials map is forgotten
ClearCataloguesPartly ==
  /\ buildingsCatalogue' = EmptyMap
  /\ processCatalogue' = EmptyMap
  /\ materialsCatalogue' = materialsCatalogue
  /\ cataloguesLoaded' = FALSE

\* mutant of ClearCatalogues: cataloguesLoaded is left as it is
ClearCataloguesKeepLoaded ==
  /\ buildingsCatalogue' = EmptyMap
  /\ processCatalogue' = EmptyMap
  /\ materialsCatalogue' = EmptyMap
  /\ cataloguesLoaded' = cataloguesLoaded

\* the else branch of the [user] effect
ClearCatalogues ==
  /\ buildingsCatalogue' = EmptyMap
  /\ processCatalogue' = EmptyMap
  /\ materialsCatalogue' = EmptyMap
  /\ cataloguesLoaded' = FALSE

\* the effect runs when the user value differs (Object.is) from the one of
\* the previous render; loadCatalogues() runs up to its first await
UserEffect(newUser, maxLoads) ==
  IF newUser = user
    THEN /\ ev' = Other
         /\ UNCHANGED <<cacheVars, loadVars>>
    ELSE IF newUser # NoUser
      THEN /\ TotalLoads < maxLoads
           /\ loads' = [loads EXCEPT !["buildings"] = @ + 1]
           /\ loadsThisSession' =
                IF user = NoUser \/ user.uid # newUser.uid
                  THEN 1
                  ELSE IF loadsThisSession < LoadCountCap
                         THEN loadsThisSession + 1 ELSE LoadCountCap
           /\ ev' = Other
           /\ UNCHANGED <<cacheVars, lastGood>>
      ELSE /\ ClearCatalogues
           /\ ev' = Ev("clear", "-",
                       \/ cataloguesLoaded
                       \/ \E k \in Kinds : Cat(k) # EmptyMap, FALSE)
           /\ lastGood' = [k \in Kinds |-> NoRead]
           /\ loadsThisSession' = 0
           /\ UNCHANGED loads

\* await gameClient.get_buildings_catalogue() returns
BuildingsRead(reads) ==
  \E result \in ReadResults(reads) :
    /\ loads["buildings"] > 0
    /\ buildingsCatalogue' = AfterRead(buildingsCatalogue, result)
    /\ loads' = [loads EXCEPT !["buildings"] = @ - 1, !["process"] = @ + 1]
    /\ lastGood' = IF result.success
                     THEN [lastGood EXCEPT !["buildings"] = GoodRead(result.data)]
                     ELSE lastGood
    /\ ev' = ReadEv("buildings", buildingsCatalogue, result)
    /\ UNCHANGED <<authVars, processCatalogue, materialsCatalogue,
                   cataloguesLoaded, lastRefresh, sweeps, loadsThisSession,
                   routeVars, viewVars>>

\* await gameClient.get_process_catalogue() returns
ProcessRead(reads) ==
  \E result \in ReadResults(reads) :
    /\ loads["process"] > 0
    /\ processCatalogue' = AfterRead(processCatalogue, result)
    /\ loads' = [loads EXCEPT !["process"] = @ - 1, !["materials"] = @ + 1]
    /\ lastGood' = IF result.success
                     THEN [lastGood EXCEPT !["process"] = GoodRead(result.data)]
                     ELSE lastGood
    /\ ev' = ReadEv("process", processCatalogue, result)
    /\ UNCHANGED <<authVars, buildingsCatalogue, materialsCatalogue,
                   cataloguesLoaded, lastRefresh, sweeps, loadsThisSession,
                   routeVars, viewVars>>

\* await gameClient.get_materials_catalogue() returns; loadCatalogues ends
MaterialsRead(reads) ==
  \E result \in ReadResults(reads) :
    /\ loads["materials"] > 0
    /\ materialsCatalogue' = AfterRead(materialsCatalogue, result)
    /\ cataloguesLoaded' = (IF LoadedAfter(result) THEN TRUE
                                                   ELSE cataloguesLoaded)
    /\ loads' = [loads EXCEPT !["materials"] = @ - 1]
    /\ lastGood' = IF result.success
                     THEN [lastGood EXCEPT !["materials"] = GoodRead(result.data)]
                     ELSE lastGood
    /\ ev' = ReadEv("materials", materialsCatalogue, result)
    /\ UNCHANGED <<authVars, buildingsCatalogue, processCatalogue,
                   lastRefresh, sweeps, loadsThisSession,
                   routeVars, viewVars>>

(***************************************************************************)
(* AuthProvider.                                                           *)
(***************************************************************************)
\* supabase.auth.getSession().then(...): once, after mount
GetSessionResolved(maxLoads) ==
  \E s \in UserObjs \cup {NoUser} :
    /\ sessionPending
    /\ sessionPending' = FALSE
    /\ session' = s
    /\ user' = s
    /\ loading' = FALSE
    /\ UserEffect(s, maxLoads)
    /\ UNCHANGED <<lastRefresh, sweeps>>
    /\ RouteFollows

\* the onAuthStateChange callback with one of the given sessions
AuthStateChangeTo(sessions, maxLoads) ==
  \E s \in sessions :
    /\ session' = s
    /\ user' = s
    /\ loading' = FALSE
    /\ UserEffect(s, maxLoads)
    /\ UNCHANGED <<sessionPending, lastRefresh, sweeps>>
    /\ RouteFollows

\* the onAuthStateChange callback: any event, any session the SDK delivers
AuthStateChange(maxLoads) ==
  AuthStateChangeTo(UserObjs \cup {NoUser}, maxLoads)

\* login(): await gameClient.login() returned a user. login() is called by
\* LoginPage.
LoginSuccessOf(users, maxLoads) ==
  \E u \in users :
    /\ pathname = "/login"
    /\ user' = u
    /\ UserEffect(u, maxLoads)
    /\ UNCHANGED <<session, loading, sessionPending, lastRefresh, sweeps>>
    /\ RouteFollows

LoginSuccess(maxLoads) == LoginSuccessOf(UserObjs, maxLoads)

\* login(): await gameClient.login() returned an error result
LoginFailure ==
  /\ pathname = "/login"
  /\ ev' = Other
  /\ UNCHANGED <<authVars, cacheVars, loadVars, lastRefresh, sweeps,
                 routeVars, viewVars>>

\* logout(): await gameClient.logout() returned; setUser(null),
\* setSession(null). The button is in Layout, shown to a signed-in user.
Logout ==
  /\ user # NoUser \/ session # NoUser
  /\ user' = NoUser
  /\ session' = NoUser
  /\ UserEffect(NoUser, 0)
  /\ UNCHANGED <<loading, sessionPending, lastRefresh, sweeps>>
  /\ RouteFollows

\* gameClient.logout(): `await supabase.auth.signOut()` with no try/catch
\* and no return value. A thrown error rejects the promise; an error object
\* in the resolved value is dropped.
logout(outcome) == IF outcome = "throw" THEN "rejected" ELSE "void"

\* logout(): await gameClient.logout() rejected. The rejection leaves
\* AuthProvider.logout before setUser(null), and the button's onClick does
\* not catch it.
LogoutRejected ==
  /\ Outlet # "none"
  /\ \E outcome \in Outcomes : logout(outcome) = "rejected"
  /\ ev' = Ev("rejected", "logout", FALSE, FALSE)
  /\ UNCHANGED <<authVars, cacheVars, loadVars, lastRefresh, sweeps,
                 routeVars, viewVars>>

(***************************************************************************)
(* Navigation and ProtectedRoute's checkPlayer.                            *)
(***************************************************************************)
\* the location changes to a page under ProtectedRoute (a link of Layout,
\* LoginPage's navigate('/dashboard'), the address bar)
Navigate(paths) ==
  \E path \in paths :
    /\ path # pathname
    /\ SetRoute(Settle(user, loading, path, playerExists, checkingPlayer,
                       playerChecks, TRUE))
    /\ ev' = Other
    /\ UNCHANGED <<authVars, cacheVars, loadVars, lastRefresh, sweeps>>
    /\ ViewFollows

\* what .from('players').select('*').single() does for an account: with no
\* row it gives an error object
CheckOutcomes(uid) ==
  IF uid \in NoRecordUids THEN Outcomes \ {"data"} ELSE Outcomes

\* checkPlayer: await gameClient.get_player_data() returns. The step is
\* labelled; ok says that the player record was found.
PlayerCheckReturn ==
  \E i \in 1..Len(playerChecks) :
  \E outcome \in CheckOutcomes(playerChecks[i]) :
    LET result == ApiResult(outcome, << >>)
        exists == IF result.success THEN "true" ELSE "false"
    IN
    /\ SetRoute(Settle(user, loading, pathname, exists, FALSE,
                       Without(playerChecks, i), FALSE))
    /\ ev' = Ev("checkPlayer", "-", result.success, FALSE)
    /\ UNCHANGED <<authVars, cacheVars, loadVars, lastRefresh, sweeps>>
    /\ ViewFollows

(***************************************************************************)
(* GameProvider.refreshAll and GameClient.runResolvers.                    *)
(***************************************************************************)
\* overlap records whether an earlier refreshAll() was still in flight when
\* this one was called
NewSweep ==
  [issued |-> << runResolvers[1] >>, returned |-> 0, allFailed |-> TRUE,
   stamps |-> 0, pc |-> "running", overlap |-> FALSE]

\* refreshAll() is called: runResolvers() runs up to its first await
StartRefresh(maxSweeps) ==
  /\ Len(sweeps) < maxSweeps
  /\ sweeps' = Append(sweeps,
       [NewSweep EXCEPT !.overlap = \E s \in 1..Len(sweeps) :
                                      sweeps[s].pc # "done"])
  /\ ev' = Other
  /\ UNCHANGED <<authVars, cacheVars, loadVars, lastRefresh,
                 routeVars, viewVars>>

\* Layout.handleRefresh: the REFRESH ALL button, rendered for a signed-in user
HandleRefresh(maxSweeps) ==
  /\ user # NoUser
  /\ ~loading
  /\ StartRefresh(maxSweeps)

\* the same with the route modelled: Layout is mounted under ProtectedRoute's
\* Outlet, and the player waits for the previous refresh to end
HandleRefreshIdle(maxSweeps) ==
  /\ Outlet # "none"
  /\ \A s \in 1..Len(sweeps) : sweeps[s].pc = "done"
  /\ HandleRefresh(maxSweeps)

\* the resolver RPC in flight returns; runResolvers goes on
ResolverReturn ==
  \E s \in 1..Len(sweeps), outcome \in Outcomes :
    LET sw == sweeps[s]
        result == ApiResult(outcome, << >>)
        more == NextToIssue(sw.issued, result)
        issued == sw.issued \o more
    IN
    /\ sw.pc = "running"
    /\ sw.returned < Len(sw.issued)
    /\ sweeps' = [sweeps EXCEPT ![s] =
         [sw EXCEPT !.issued = issued,
                    !.returned = @ + 1,
                    !.allFailed = @ /\ ~result.success,
                    !.pc = IF sw.returned + 1 = Len(issued)
                             THEN "resolved" ELSE "running"]]
    /\ ev' = Other
    /\ UNCHANGED <<authVars, cacheVars, loadVars, lastRefresh,
                   routeVars, viewVars>>

\* await gameClient.runResolvers() returned: setLastRefresh(new Date())
RECURSIVE Stamp(_, _)
Stamp(prev, n) == IF n = 0 THEN prev ELSE Stamp(NewDate(prev), n - 1)

\* loadData() is called: setLoading(true), setError(''), and the first
\* await is reached
CallLoadData ==
  /\ loadData' = StartLoadData(loadData)
  /\ reloadOrder' = StartReload(reloadOrder, Outlet)
  /\ viewLoading' = (IF HasLoadingState(Outlet) THEN TRUE ELSE viewLoading)
  /\ viewError' = (IF HasLoadingState(Outlet) THEN FALSE ELSE viewError)
  /\ UNCHANGED <<player, materials, buildings, buyers>>

\* the [loadData, lastRefresh] effect of the page shown runs when
\* lastRefresh has changed
RefreshEffect ==
  /\ IF lastRefresh' # lastRefresh /\ RefetchesOnRefresh(Outlet)
       THEN CallLoadData
       ELSE UNCHANGED fetchVars
  /\ UNCHANGED formVars

RefreshAllFinish ==
  \E s \in 1..Len(sweeps) :
    LET sw == sweeps[s] IN
    /\ sw.pc = "resolved"
    /\ lastRefresh' = Stamp(lastRefresh, StampsAfterSweep(sw))
    /\ sweeps' = [sweeps EXCEPT ![s] =
         [sw EXCEPT !.stamps = @ + StampsAfterSweep(sw), !.pc = "done"]]
    /\ ev' = Other
    /\ RefreshEffect
    /\ UNCHANGED <<authVars, cacheVars, loadVars, routeVars>>

(***************************************************************************)
(* Pages: loadData.                                                        *)
(***************************************************************************)
\* the rows a call may bring, << >> alone when the call is not among those
\* that succeeded
RowsFor(call, calls, rowsets) == IF call \in calls THEN rowsets ELSE {<< >>}

\* the calls followed that wait at await i; 0 alone where the calls are
\* not followed: on another page, and after the await of the materials
ReloadsAt(order, path, i) ==
  IF /\ FollowsReloads(order, path)
     /\ \A k \in 1..(i - 1) :
          "get_player_materials" \notin LoadDataCalls(path)[k]
    THEN { j \in 1..Len(order.calls) : order.calls[j].stage = i }
    ELSE { 0 }

\* call j of the order has returned from an await. settled: the await was
\* the one of the materials; wrote: the response set the materials
ReloadReturned(order, j, settled, wrote) ==
  LET marked == [k \in 1..Len(order.calls) |->
                   IF wrote /\ k < j
                     THEN [order.calls[k] EXCEPT !.behind = TRUE]
                     ELSE order.calls[k]]
  IN Order(order.follows,
           IF settled THEN Without(marked, j)
                      ELSE [marked EXCEPT ![j].stage = @ + 1])

\* the label of a step in which a loadData await returned: "behind" when
\* the response of a call that was behind set the materials
Returned(order, j, wrote) ==
  IF j # 0 /\ wrote /\ order.calls[j].behind
    THEN Ev("loadData", "behind", TRUE, FALSE)
    ELSE Other

\* an await of a loadData of the page shown returns. ok: the calls of the
\* group that succeeded (a gameClient call returns success: false for an
\* error object and for a thrown error alike). The code after the await
\* runs up to the next await or to the end, where it calls
\* setLoading(false).
LoadDataReturn(inventories, playerBuildings, npcBuyers) ==
  \E i \in 1..Len(loadData) :
    LET calls == LoadDataCalls(Outlet)[i] IN
    \E ok \in SUBSET calls :
    \E inv \in RowsFor("get_player_materials", ok, inventories),
       blds \in RowsFor("get_player_buildings", ok, playerBuildings),
       npcs \in RowsFor("get_npc_buyers", ok, npcBuyers) :
    \E j \in ReloadsAt(reloadOrder, Outlet, i) :
      /\ loadData[i] > 0
      /\ loadData' = AdvanceLoadData(loadData, i)
      /\ reloadOrder' = IF j = 0 THEN reloadOrder
                        ELSE ReloadReturned(reloadOrder, j,
                                            "get_player_materials" \in calls,
                                            "get_player_materials" \in ok)
      /\ player' = (player \/ "get_player_data" \in ok)
      /\ materials' = IF "get_player_materials" \in ok THEN inv ELSE materials
      /\ buildings' = IF "get_player_buildings" \in ok THEN blds ELSE buildings
      /\ buyers' = IF "get_npc_buyers" \in ok THEN npcs ELSE buyers
      /\ viewError' = (viewError \/ (ErrorOnFailure(Outlet) \cap calls) \ ok # {})
      /\ viewLoading' = (IF i = Len(loadData) /\ HasLoadingState(Outlet)
                           THEN FALSE ELSE viewLoading)
      /\ ev' = Returned(reloadOrder, j, "get_player_materials" \in ok)
      /\ UNCHANGED <<authVars, cacheVars, loadVars, lastRefresh, sweeps,
                     routeVars, formVars>>

(***************************************************************************)
(* DashboardPage.                                                          *)
(***************************************************************************)
\* res_phase of a catalogue row; like the name it is fixed by the id
res_phase(info) == IF info.id = 1 THEN "Solid" ELSE "Gas"

\* String.prototype.toLowerCase on the phases in use
toLowerCase(str) ==
  CASE str = "Solid" -> "solid"
    [] str = "Gas" -> "gas"
    [] OTHER -> str

\* the filter of getMaterialsByPhase: info?.res_phase?.toLowerCase() is
\* undefined, which is falsy, when the catalogue has no entry
PhaseMatches(mat, phases) ==
  LET info == Get(materialsCatalogue, mat.res_id) IN
  info # NotFound /\ toLowerCase(res_phase(info)) \in phases

ByResId(a, b) == a.res_id < b.res_id

getMaterialsByPhase(phases) ==
  SortSeq(SelectSeq(materials, LAMBDA mat : PhaseMatches(mat, phases)),
          ByResId)

dryMaterials == getMaterialsByPhase({"solid", "dry"})
fluidMaterials == getMaterialsByPhase({"fluid"})
gasMaterials == getMaterialsByPhase({"gas"})

\* what DashboardPage returns: the loading line, the error line, or the
\* page with the three inventory tables
DashboardRender ==
  IF viewLoading /\ ~player THEN "loading"
  ELSE IF viewError THEN "error"
  ELSE "page"

\* the rows of the three tables, each row a material stack
InventoryRows ==
  IF Outlet = "/dashboard" /\ DashboardRender = "page"
    THEN dryMaterials \o fluidMaterials \o gasMaterials
    ELSE << >>

\* what a table row shows as the name: info?.res_name || mat.res_code
RowName(mat) ==
  LET info == Get(materialsCatalogue, mat.res_id) IN
  IF info # NotFound THEN info.name ELSE "res_code"

\* a click on a row of an inventory table
SelectMaterial ==
  \E i \in 1..Len(InventoryRows) :
    /\ selectedMaterial' = InventoryRows[i]
    /\ ev' = Other
    /\ UNCHANGED <<authVars, cacheVars, loadVars, lastRefresh, sweeps,
                   routeVars, pageVars, fetchVars, disposeAmount, disposeCalls,
                   selectedBuyer, sellAmount, status>>

\* typing into the dispose amount field
TypeDisposeAmount(texts) ==
  \E text \in texts :
    /\ Outlet = "/dashboard"
    /\ DashboardRender = "page"
    /\ disposeAmount' = text
    /\ ev' = Other
    /\ UNCHANGED <<authVars, cacheVars, loadVars, lastRefresh, sweeps,
                   routeVars, pageVars, fetchVars, selectedMaterial, disposeCalls,
                   selectedBuyer, sellAmount, status>>

\* mutant of DisposeArgs: the amount of the stack is sent, not the amount
\* typed
DisposeArgsWholeStack(mat, amount) ==
  [res_id |-> mat.res_id, amount |-> mat.amount]

\* gameClient.dispose_resources(selectedMaterial.res_id, amount)
DisposeArgs(mat, amount) == [res_id |-> mat.res_id, amount |-> amount]

\* handleDispose up to its await. confirmed: the answer to window.confirm;
\* the last step is labelled when it has called dispose_resources.
\* The model also calls it with no stack selected, the case its first test
\* handles (the button that calls it is disabled then).
HandleDispose ==
  \E confirmed \in BOOLEAN :
    LET amount == parseInt(disposeAmount) IN
    /\ Outlet = "/dashboard"
    /\ DashboardRender = "page"
    /\ IF \/ selectedMaterial = NoStack
          \/ amount.nan \/ amount.val <= 0
          \/ amount.val > selectedMaterial.amount
         THEN /\ status' = "error"
              /\ ev' = Other
              /\ UNCHANGED disposeCalls
         ELSE IF ~confirmed
           THEN /\ ev' = Other
                /\ UNCHANGED <<status, disposeCalls>>
           ELSE /\ Len(disposeCalls) < MaxDisposes
                /\ SumSeq(loadData) + Len(disposeCalls) < MaxReloads
                /\ disposeCalls' =
                     Append(disposeCalls, DisposeArgs(selectedMaterial, amount.val))
                /\ ev' = Ev("dispose_resources", "-", confirmed, FALSE)
                /\ UNCHANGED status
    /\ UNCHANGED <<authVars, cacheVars, loadVars, lastRefresh, sweeps,
                   routeVars, pageVars, fetchVars, selectedMaterial, disposeAmount,
                   selectedBuyer, sellAmount>>

\* handleDispose after its await: dispose_resources has returned
DisposeReturn ==
  \E i \in 1..Len(disposeCalls), outcome \in Outcomes :
    LET result == ApiResult(outcome, << >>) IN
    /\ disposeCalls' = SubSeq(disposeCalls, 1, i - 1)
                         \o SubSeq(disposeCalls, i + 1, Len(disposeCalls))
    /\ status' = IF result.success THEN "success" ELSE "error"
    /\ selectedMaterial' = IF result.success THEN NoStack ELSE selectedMaterial
    /\ IF result.success THEN CallLoadData ELSE UNCHANGED fetchVars
    /\ ev' = Ev("returned", "dispose_resources", result.success, FALSE)
    /\ UNCHANGED <<authVars, cacheVars, loadVars, lastRefresh, sweeps,
                   routeVars, pageVars, disposeAmount, selectedBuyer, sellAmount>>

(***************************************************************************)
(* NpcBuyersPage.                                                          *)
(***************************************************************************)
\* what NpcBuyersPage returns
NpcBuyersRender ==
  IF viewLoading /\ buyers = << >> THEN "loading"
  ELSE IF viewError THEN "error"
  ELSE "page"

\* a click on a row of the buyers table
SelectBuyer ==
  \E i \in 1..Len(buyers) :
    /\ Outlet = "/npc-buyers"
    /\ NpcBuyersRender = "page"
    /\ selectedBuyer' = buyers[i]
    /\ sellAmount' = InitialAmount
    /\ ev' = Other
    /\ UNCHANGED <<authVars, cacheVars, loadVars, lastRefresh, sweeps,
                   routeVars, pageVars, fetchVars, selectedMaterial, disposeAmount,
                   disposeCalls, status>>

\* typing into the sell amount field (disabled while no buyer is selected)
TypeSellAmount(texts) ==
  \E text \in texts :
    /\ Outlet = "/npc-buyers"
    /\ NpcBuyersRender = "page"
    /\ selectedBuyer # NoBuyer
    /\ sellAmount' = text
    /\ ev' = Other
    /\ UNCHANGED <<authVars, cacheVars, loadVars, lastRefresh, sweeps,
                   routeVars, pageVars, fetchVars, selectedMaterial, disposeAmount,
                   disposeCalls, selectedBuyer, status>>

\* materials.find((m) => m.res_id === res_id)
Find(mats, res) ==
  IF \E i \in 1..Len(mats) : mats[i].res_id = res
    THEN mats[CHOOSE i \in 1..Len(mats) :
                /\ mats[i].res_id = res
                /\ \A j \in 1..(i - 1) : mats[j].res_id # res]
    ELSE NoStack

\* mat?.amount || 0
getPlayerInventory(res) == Find(materials, res).amount

\* mutant of MathMin: the larger of the two
MathMax(a, b) == IF a < b THEN b ELSE a

\* Math.min
MathMin(a, b) == IF a < b THEN a ELSE b

\* handleSellMax. The model also calls it with no buyer selected, the case
\* its first test handles (the button that calls it is disabled then).
HandleSellMax ==
  /\ Outlet = "/npc-buyers"
  /\ NpcBuyersRender = "page"
  /\ IF selectedBuyer = NoBuyer
       THEN /\ status' = "error"
            /\ UNCHANGED sellAmount
       ELSE /\ sellAmount' =
                 String(MathMin(getPlayerInventory(selectedBuyer.buy_res_id),
                                selectedBuyer.current_demand))
            /\ UNCHANGED status
  /\ ev' = Ev("handleSellMax", "-", selectedBuyer # NoBuyer, FALSE)
  /\ UNCHANGED <<authVars, cacheVars, loadVars, lastRefresh, sweeps,
                 routeVars, pageVars, fetchVars, selectedMaterial, disposeAmount,
                 disposeCalls, selectedBuyer>>

\* a game-action RPC in flight: gameClient.<name>(...args)
RpcCall(name, args) == [name |-> name, args |-> args]

\* a handler may call its RPC: the calls in flight are bounded
MayCall ==
  /\ Len(rpcCalls) < MaxCalls
  /\ SumSeq(loadData) + Len(rpcCalls) < MaxReloads

\* mutant of CanSell: the player's inventory is not looked at
CanSellAnyHeld(amount, buyer, held) ==
  /\ ~amount.nan /\ amount.val > 0
  /\ amount.val <= buyer.current_demand

\* the three tests of handleSell on the parsed amount
CanSell(amount, buyer, held) ==
  /\ ~amount.nan /\ amount.val > 0
  /\ amount.val <= buyer.current_demand
  /\ amount.val <= held

\* handleSell up to its await. confirmed: the answer to window.confirm.
\* The step is labelled; ok says that sell_to_npc was called.
HandleSell ==
  \E confirmed \in BOOLEAN :
    LET amount == parseInt(sellAmount)
        valid == /\ selectedBuyer # NoBuyer
                 /\ CanSell(amount, selectedBuyer,
                            getPlayerInventory(selectedBuyer.buy_res_id))
    IN
    /\ Outlet = "/npc-buyers"
    /\ NpcBuyersRender = "page"
    /\ IF ~valid
         THEN /\ status' = "error"
              /\ UNCHANGED rpcCalls
         ELSE IF ~confirmed
           THEN UNCHANGED <<status, rpcCalls>>
           ELSE /\ MayCall
                /\ rpcCalls' = Append(rpcCalls,
                     RpcCall("sell_to_npc",
                             << selectedBuyer.npc_buyer_id, amount.val >>))
                /\ UNCHANGED status
    /\ ev' = Ev("handleSell", "-", valid /\ confirmed, FALSE)
    /\ UNCHANGED <<authVars, cacheVars, loadVars, lastRefresh, sweeps,
                   routeVars, fetchVars, selectedMaterial, disposeAmount,
                   disposeCalls, selectedBuyer, sellAmount,
                   selectedBuilding, selectedCatalogueBuilding,
                   allowedProcesses, selectedProcess, processDetails,
                   runCount, pending>>

\* the handlers that call setSelectedBuilding(null) after a success
ClearsSelection(name) == name = "demolish_building"

\* mutant of ReloadsAfter: loadData() is called whatever the result
ReloadsAfterAny(result) == TRUE

\* the handlers call loadData() after a success only
ReloadsAfter(result) == result.success

\* a game-action handler after its await: the RPC has returned. Every
\* handler sets the status; on success it calls loadData(), and
\* handleDemolish clears the selection first.
\* The step is labelled with the RPC's name; ok says that it succeeded.
RpcReturn ==
  \E i \in 1..Len(rpcCalls), outcome \in Outcomes :
    LET result == ApiResult(outcome, << >>)
        call == rpcCalls[i]
    IN
    /\ rpcCalls' = SubSeq(rpcCalls, 1, i - 1)
                     \o SubSeq(rpcCalls, i + 1, Len(rpcCalls))
    /\ status' = IF result.success THEN "success" ELSE "error"
    /\ selectedBuilding' =
         IF result.success /\ ClearsSelection(call.name)
           THEN NoBuilding ELSE selectedBuilding
    /\ IF ReloadsAfter(result) THEN CallLoadData ELSE UNCHANGED fetchVars
    /\ ev' = Ev("returned", call.name, result.success, FALSE)
    /\ UNCHANGED <<authVars, cacheVars, loadVars, lastRefresh, sweeps,
                   routeVars, selectedMaterial, disposeAmount, disposeCalls,
                   selectedBuyer, sellAmount, selectedCatalogueBuilding,
                   allowedProcesses, selectedProcess, processDetails,
                   runCount, pending>>

(***************************************************************************)
(* BuildingsPage.                                                          *)
(***************************************************************************)
\* what get_player_buildings may return to BuildingsPage: no building, or
\* one building of a catalogued kind that is under construction,
\* unconfigured, or holds a process that is idle or running (a row may name
\* a process while its status still reads 'unconfigured')
BuildingRows(ids) ==
  { << >> }
    \cup { << PlayerBuilding(1, b, current, 0, "null") >> :
             b \in ids, current \in {"under_construction", "unconfigured"} }
    \cup { << PlayerBuilding(1, b, current, p, procStatus) >> :
             b \in ids, p \in ids,
             current \in {"unconfigured", "configured"},
             procStatus \in {"idle", "running"} }

\* what BuildingsPage returns
BuildingsRender ==
  IF viewLoading /\ buildings = << >> THEN "loading"
  ELSE IF viewError THEN "error"
  ELSE "page"

\* a click on a row of the buildings table: setSelectedBuilding(bld)
SelectPlayerBuilding ==
  \E i \in 1..Len(buildings) :
    /\ Outlet = "/buildings"
    /\ BuildingsRender = "page"
    /\ selectedBuilding' = buildings[i]
    /\ ev' = Other
    /\ UNCHANGED <<authVars, cacheVars, loadVars, lastRefresh, sweeps,
                   routeVars, fetchVars, selectedMaterial, disposeAmount,
                   disposeCalls, selectedBuyer, sellAmount, status,
                   rpcCalls, selectedCatalogueBuilding, allowedProcesses,
                   selectedProcess, processDetails, runCount, pending>>

\* the catalogue list: an option of catalogueArray is chosen (no catalogue
\* row of the model has a technology requirement)
SelectCatalogueBuilding ==
  \E id \in DOMAIN buildingsCatalogue :
    /\ Outlet = "/buildings"
    /\ BuildingsRender = "page"
    /\ selectedCatalogueBuilding' = Get(buildingsCatalogue, id)
    /\ ev' = Other
    /\ UNCHANGED <<authVars, cacheVars, loadVars, lastRefresh, sweeps,
                   routeVars, fetchVars, selectedMaterial, disposeAmount,
                   disposeCalls, selectedBuyer, sellAmount, status,
                   rpcCalls, selectedBuilding, allowedProcesses,
                   selectedProcess, processDetails, runCount, pending>>

\* handleBuild up to its await. The model also calls it with no building
\* type selected (the button is disabled then).
HandleBuild ==
  \E confirmed \in BOOLEAN :
    LET valid == selectedCatalogueBuilding # NotFound IN
    /\ Outlet = "/buildings"
    /\ BuildingsRender = "page"
    /\ IF ~valid
         THEN /\ status' = "error"
              /\ UNCHANGED rpcCalls
         ELSE IF ~confirmed
           THEN UNCHANGED <<status, rpcCalls>>
           ELSE /\ MayCall
                /\ rpcCalls' = Append(rpcCalls,
                     RpcCall("build_new_building",
                             << selectedCatalogueBuilding.id >>))
                /\ UNCHANGED status
    /\ ev' = Other
    /\ UNCHANGED <<authVars, cacheVars, loadVars, lastRefresh, sweeps,
                   routeVars, fetchVars, selectedMaterial, disposeAmount,
                   disposeCalls, selectedBuyer, sellAmount,
                   selectedBuilding, selectedCatalogueBuilding,
                   allowedProcesses, selectedProcess, processDetails,
                   runCount, pending>>

\* `b_proc_installed && b_proc_installed !== 0`: null and 0 are both falsy
ProcInstalled(bld) == bld.b_proc_installed # 0

\* mutant of CanDemolish: the building's status is not looked at
CanDemolishAnyStatus(bld) ==
  /\ bld # NoBuilding
  /\ ~ProcInstalled(bld)

\* the three tests of handleDemolish
CanDemolish(bld) ==
  /\ bld # NoBuilding
  /\ bld.b_current_status = "unconfigured"
  /\ ~ProcInstalled(bld)

\* handleDemolish up to its await. confirmed: the answer to window.confirm,
\* asked only when the three tests pass. The model also calls the handler
\* with no building selected (the button is disabled then).
HandleDemolish ==
  \E confirmed \in BOOLEAN :
    LET valid == CanDemolish(selectedBuilding) IN
    /\ Outlet = "/buildings"
    /\ BuildingsRender = "page"
    /\ IF ~valid
         THEN /\ status' = "error"
              /\ UNCHANGED rpcCalls
         ELSE IF ~confirmed
           THEN UNCHANGED <<status, rpcCalls>>
           ELSE /\ MayCall
                /\ rpcCalls' = Append(rpcCalls,
                     RpcCall("demolish_building",
                             << selectedBuilding.this_building_id >>))
                /\ UNCHANGED status
    /\ ev' = Ev("handleDemolish", "-", valid /\ confirmed, FALSE)
    /\ UNCHANGED <<authVars, cacheVars, loadVars, lastRefresh, sweeps,
                   routeVars, fetchVars, selectedMaterial, disposeAmount,
                   disposeCalls, selectedBuyer, sellAmount,
                   selectedBuilding, selectedCatalogueBuilding,
                   allowedProcesses, selectedProcess, processDetails,
                   runCount, pending>>

(***************************************************************************)
(* ProcessesPage.                                                          *)
(***************************************************************************)
\* the controls of DashboardPage and NpcBuyersPage
tradeVars == <<selectedMaterial, disposeAmount, disposeCalls, selectedBuyer,
               sellAmount>>

\* the process catalogue of the backend: two processes
ProcessReads == { << Row(1), Row(2) >> }

\* the backend's table of allowed processes: a building of kind b may hold
\* process b only
AllowedTable(bid) == { bid }

\* what get_allowed_processes(building_id) brings when it succeeds
AllowedRows(bid) == << [allow_proc |-> bid] >>

\* what get_player_buildings may return to ProcessesPage: two buildings of
\* different kinds, the first without a process, the second without one or
\* with its process idle
TwoBuildings ==
  { << PlayerBuilding(1, 1, "unconfigured", 0, "null"),
       PlayerBuilding(2, 2, "unconfigured", 0, "null") >>,
    << PlayerBuilding(1, 1, "unconfigured", 0, "null"),
       PlayerBuilding(2, 2, "configured", 2, "idle") >> }

\* the same for one building whose process the backend starts and ends
OneBuilding ==
  { << PlayerBuilding(1, 1, "unconfigured", 0, "null") >>,
    << PlayerBuilding(1, 1, "configured", 1, "idle") >>,
    << PlayerBuilding(1, 1, "configured", 1, "running") >> }

\* what ProcessesPage returns
ProcessesRender ==
  IF viewLoading /\ buildings = << >> THEN "loading"
  ELSE IF viewError THEN "error"
  ELSE "page"

\* a handler or a loadProcessDetails() of the page waiting at an await.
\* building: the row the handler was called with (or the selection its
\* closure holds); proc: the process whose details are fetched
Waiting(op, pc, building, proc) ==
  [op |-> op, pc |-> pc, building |-> building, proc |-> proc]

\* pending with its entry i replaced
Replaced(q, i, w) == [q EXCEPT ![i] = w]

\* allowedProcesses.filter(isProcessAvailable) and the list with "Show also
\* unavailable" ticked: no catalogue row of the model has a technology
\* requirement, so both are allowedProcesses
availableProcesses(allowed) == allowed

\* availableProcesses.some(p => p.proc_id === proc.proc_id)
Some(list, proc) == \E i \in 1..Len(list) : list[i].id = proc.id

\* the two auto-select effects, run after a render with the given state:
\* whether they call setSelectedProcess(availableProcesses[0]) and
\* loadProcessDetails
AutoSelects(bld, allowed, proc) ==
  /\ bld # NoBuilding
  /\ bld.b_proc_installed = 0
  /\ Len(availableProcesses(allowed)) > 0
  /\ (proc = NotFound \/ ~Some(availableProcesses(allowed), proc))

\* handleBuildingSelect up to its first await: a click on a row of the
\* buildings table
HandleBuildingSelectUpTo(waiting) ==
  \E i \in 1..Len(buildings) :
    LET building == buildings[i] IN
    /\ Outlet = "/processes"
    /\ ProcessesRender = "page"
    /\ Len(pending) < waiting
    /\ selectedBuilding' = building
    /\ selectedProcess' = NotFound
    /\ processDetails' = 0
    /\ allowedProcesses' = << >>
    /\ pending' = Append(pending,
         IF building.b_proc_installed # 0
           THEN Waiting("select", "installed", building,
                        building.b_proc_installed)
           ELSE Waiting("select", "allowed", building, 0))
    /\ ev' = Other
    /\ UNCHANGED <<authVars, cacheVars, loadVars, lastRefresh, sweeps,
                   routeVars, fetchVars, tradeVars, status, rpcCalls,
                   selectedCatalogueBuilding, runCount>>

HandleBuildingSelect == HandleBuildingSelectUpTo(MaxPending)

\* handleBuildingSelect after `await loadProcessDetails(b_proc_installed)`:
\* the details are set (empty lists when the fetch failed) and
\* get_allowed_processes is called
InstalledDetailsReturn ==
  \E i \in 1..Len(pending) :
    LET w == pending[i] IN
    /\ w.op = "select" /\ w.pc = "installed"
    /\ processDetails' = w.proc
    /\ pending' = Replaced(pending, i,
                           Waiting("select", "allowed", w.building, 0))
    /\ ev' = Other
    /\ UNCHANGED <<authVars, cacheVars, loadVars, lastRefresh, sweeps,
                   routeVars, fetchVars, tradeVars, status, rpcCalls,
                   selectedBuilding, selectedCatalogueBuilding,
                   allowedProcesses, selectedProcess, runCount>>

\* Array.from(processCatalogue.values()).filter(p => allowedIds.has(...))
\* for the one id a response of the model holds
AllowedOf(rows) ==
  IF rows # << >> /\ rows[1].allow_proc \in DOMAIN processCatalogue
    THEN << processCatalogue[rows[1].allow_proc] >>
    ELSE << >>

\* handleBuildingSelect after `await get_allowed_processes(building_id)`,
\* followed by the auto-select effects. The handler tests `building`, the
\* row it was called with; the effects test selectedBuilding.
AllowedProcessesReturn ==
  \E i \in 1..Len(pending), outcome \in Outcomes :
    LET w == pending[i]
        result == ApiResult(outcome, AllowedRows(w.building.building_id))
        allowed == IF result.success THEN AllowedOf(result.data) ELSE << >>
        byHandler == Len(allowed) > 0 /\ w.building.b_proc_installed = 0
        byEffect == ~byHandler
                    /\ AutoSelects(selectedBuilding, allowed, selectedProcess)
    IN
    /\ w.op = "select" /\ w.pc = "allowed"
    /\ allowedProcesses' = allowed
    /\ selectedProcess' = IF byHandler \/ byEffect
                            THEN allowed[1] ELSE selectedProcess
    /\ pending' = IF byHandler
         THEN Replaced(pending, i,
                Waiting("select", "details", w.building, allowed[1].id))
         ELSE IF byEffect
           THEN Replaced(pending, i,
                  Waiting("details", "details", NoBuilding, allowed[1].id))
           ELSE Without(pending, i)
    /\ ev' = Other
    /\ UNCHANGED <<authVars, cacheVars, loadVars, lastRefresh, sweeps,
                   routeVars, fetchVars, tradeVars, status, rpcCalls,
                   selectedBuilding, selectedCatalogueBuilding,
                   processDetails, runCount>>

\* handleProcessSelect up to its await: an option of the process list is
\* chosen
HandleProcessSelect ==
  \E i \in 1..Len(availableProcesses(allowedProcesses)) :
    LET process == availableProcesses(allowedProcesses)[i] IN
    /\ Outlet = "/processes"
    /\ ProcessesRender = "page"
    /\ selectedBuilding # NoBuilding
    /\ Len(pending) < MaxPending
    /\ selectedProcess' = process
    /\ pending' = Append(pending,
                         Waiting("details", "details", NoBuilding, process.id))
    /\ ev' = Other
    /\ UNCHANGED <<authVars, cacheVars, loadVars, lastRefresh, sweeps,
                   routeVars, fetchVars, tradeVars, status, rpcCalls,
                   selectedBuilding, selectedCatalogueBuilding,
                   allowedProcesses, processDetails, runCount>>

\* a loadProcessDetails(proc_id) that nothing is left to do after returns:
\* setProcessDetails
ProcessDetailsReturn ==
  \E i \in 1..Len(pending) :
    LET w == pending[i] IN
    /\ w.op \in {"select", "details"} /\ w.pc = "details"
    /\ processDetails' = w.proc
    /\ pending' = Without(pending, i)
    /\ ev' = Other
    /\ UNCHANGED <<authVars, cacheVars, loadVars, lastRefresh, sweeps,
                   routeVars, fetchVars, tradeVars, status, rpcCalls,
                   selectedBuilding, selectedCatalogueBuilding,
                   allowedProcesses, selectedProcess, runCount>>

\* handleInstall up to its first await. With no process selected and one
\* allowed process the handler selects it and awaits its details before it
\* asks for the confirmation.
HandleInstall ==
  \E confirmed \in BOOLEAN :
    LET single == selectedProcess = NotFound /\ Len(allowedProcesses) = 1
        valid == selectedBuilding # NoBuilding
                 /\ (selectedProcess # NotFound \/ single)
    IN
    /\ Outlet = "/processes"
    /\ ProcessesRender = "page"
    /\ IF ~valid
         THEN /\ status' = "error"
              /\ UNCHANGED <<rpcCalls, selectedProcess, pending>>
         ELSE IF single
           THEN /\ Len(pending) < MaxPending
                /\ selectedProcess' = allowedProcesses[1]
                /\ pending' = Append(pending,
                     Waiting("install", "details", selectedBuilding,
                             allowedProcesses[1].id))
                /\ UNCHANGED <<status, rpcCalls>>
           ELSE IF ~confirmed
             THEN UNCHANGED <<status, rpcCalls, selectedProcess, pending>>
             ELSE /\ MayCall
                  /\ rpcCalls' = Append(rpcCalls,
                       RpcCall("install_process",
                               << selectedBuilding.this_building_id,
                                  selectedProcess.id >>))
                  /\ UNCHANGED <<status, selectedProcess, pending>>
    /\ ev' = Other
    /\ UNCHANGED <<authVars, cacheVars, loadVars, lastRefresh, sweeps,
                   routeVars, fetchVars, tradeVars, selectedBuilding,
                   selectedCatalogueBuilding, allowedProcesses,
                   processDetails, runCount>>

\* handleInstall after `await loadProcessDetails(processToInstall.proc_id)`:
\* the confirmation and the call, with the building and the process the
\* handler held when it was called
InstallDetailsReturn ==
  \E i \in 1..Len(pending), confirmed \in BOOLEAN :
    LET w == pending[i] IN
    /\ w.op = "install"
    /\ processDetails' = w.proc
    /\ pending' = Without(pending, i)
    /\ IF confirmed
         THEN /\ MayCall
              /\ rpcCalls' = Append(rpcCalls,
                   RpcCall("install_process",
                           << w.building.this_building_id, w.proc >>))
         ELSE UNCHANGED rpcCalls
    /\ ev' = Other
    /\ UNCHANGED <<authVars, cacheVars, loadVars, lastRefresh, sweeps,
                   routeVars, fetchVars, tradeVars, status,
                   selectedBuilding, selectedCatalogueBuilding,
                   allowedProcesses, selectedProcess, runCount>>

\* what the run count field may be made to hold
RunCounts == { << >>, << "0" >>, << "2" >>, << "-", "1" >> }

\* typing into the run count field
TypeRunCount(texts) ==
  \E text \in texts :
    /\ Outlet = "/processes"
    /\ ProcessesRender = "page"
    /\ text # runCount
    /\ runCount' = text
    /\ ev' = Other
    /\ UNCHANGED <<authVars, cacheVars, loadVars, lastRefresh, sweeps,
                   routeVars, fetchVars, tradeVars, status, rpcCalls,
                   selectedBuilding, selectedCatalogueBuilding,
                   allowedProcesses, selectedProcess, processDetails,
                   pending>>

\* mutant of CanUninstall: the process status is not looked at
CanUninstallAnyStatus(bld) ==
  /\ bld # NoBuilding
  /\ bld.b_proc_installed # 0

\* the three tests of handleUninstall, the first three of handleRun
CanUninstall(bld) ==
  /\ bld # NoBuilding
  /\ bld.b_proc_installed # 0
  /\ bld.b_proc_status = "idle"

\* the tests of handleRun: isNaN(runs) || runs <= 0 is the last
CanRun(bld, runs) ==
  /\ CanUninstall(bld)
  /\ ~runs.nan /\ runs.val > 0

\* handleUninstall up to its await. The model also calls it while the
\* button is disabled (no building selected, or no process installed).
HandleUninstall ==
  \E confirmed \in BOOLEAN :
    LET valid == CanUninstall(selectedBuilding) IN
    /\ Outlet = "/processes"
    /\ ProcessesRender = "page"
    /\ IF ~valid
         THEN /\ status' = "error"
              /\ UNCHANGED rpcCalls
         ELSE IF ~confirmed
           THEN UNCHANGED <<status, rpcCalls>>
           ELSE /\ MayCall
                /\ rpcCalls' = Append(rpcCalls,
                     RpcCall("uninstall_process",
                             << selectedBuilding.this_building_id >>))
                /\ UNCHANGED status
    /\ ev' = Ev("handleUninstall", "-", valid /\ confirmed, FALSE)
    /\ UNCHANGED <<authVars, cacheVars, loadVars, lastRefresh, sweeps,
                   routeVars, fetchVars, tradeVars, selectedBuilding,
                   selectedCatalogueBuilding, allowedProcesses,
                   selectedProcess, processDetails, runCount, pending>>

\* handleRun up to its await, called like handleUninstall
HandleRun ==
  \E confirmed \in BOOLEAN :
    LET runs == parseInt(runCount)
        valid == CanRun(selectedBuilding, runs)
    IN
    /\ Outlet = "/processes"
    /\ ProcessesRender = "page"
    /\ IF ~valid
         THEN /\ status' = "error"
              /\ UNCHANGED rpcCalls
         ELSE IF ~confirmed
           THEN UNCHANGED <<status, rpcCalls>>
           ELSE /\ MayCall
                /\ rpcCalls' = Append(rpcCalls,
                     RpcCall("run_process",
                             << selectedBuilding.this_building_id,
                                runs.val >>))
                /\ UNCHANGED status
    /\ ev' = Ev("handleRun", "-", valid /\ confirmed, FALSE)
    /\ UNCHANGED <<authVars, cacheVars, loadVars, lastRefresh, sweeps,
                   routeVars, fetchVars, tradeVars, selectedBuilding,
                   selectedCatalogueBuilding, allowedProcesses,
                   selectedProcess, processDetails, runCount, pending>>

(***************************************************************************)
(* Specifications.                                                         *)
(***************************************************************************)
\* the refresh orchestrator alone
NextRefresh ==
  \/ StartRefresh(MaxSweeps)
  \/ ResolverReturn
  \/ RefreshAllFinish

SpecRefresh == Init /\ [][NextRefresh]_vars

\* the session and the catalogue cache
NextCache ==
  \/ GetSessionResolved(MaxLoads)
  \/ AuthStateChange(MaxLoads)
  \/ LoginSuccess(MaxLoads)
  \/ LoginFailure
  \/ Logout
  \/ BuildingsRead(Reads(MaxRows))
  \/ ProcessRead(Reads(MaxRows))
  \/ MaterialsRead(Reads(MaxRows))

SpecCache == Init /\ [][NextCache]_vars

\* everything together
Next ==
  \/ GetSessionResolved(JointLoads)
  \/ AuthStateChange(JointLoads)
  \/ LoginSuccess(JointLoads)
  \/ LoginFailure
  \/ Logout
  \/ BuildingsRead(SeededReads)
  \/ ProcessRead(SeededReads)
  \/ MaterialsRead(SeededReads)
  \/ HandleRefresh(JointSweeps)
  \/ ResolverReturn
  \/ RefreshAllFinish

Spec == Init /\ [][Next]_vars

\* the session, the catalogue cache and ProtectedRoute
NextRoute ==
  \/ GetSessionResolved(JointLoads)
  \/ AuthStateChange(JointLoads)
  \/ LoginSuccess(JointLoads)
  \/ LoginFailure
  \/ Logout
  \/ BuildingsRead(SeededReads)
  \/ ProcessRead(SeededReads)
  \/ MaterialsRead(SeededReads)
  \/ Navigate({"/dashboard", "/buildings"})
  \/ PlayerCheckReturn

SpecRoute == Init /\ [][NextRoute]_vars

\* a player on the dashboard: the inventory and the dispose form
NextDashboard ==
  \/ GetSessionResolved(JointLoads)
  \/ Logout
  \/ BuildingsRead(SeededReads)
  \/ ProcessRead(SeededReads)
  \/ MaterialsRead(SeededReads)
  \/ Navigate({"/dashboard"})
  \/ PlayerCheckReturn
  \/ LoadDataReturn(Inventories(SeededIds), {<< >>}, {<< >>})
  \/ SelectMaterial
  \/ TypeDisposeAmount(Typed)
  \/ HandleDispose
  \/ DisposeReturn

SpecDashboard == Init /\ [][NextDashboard]_vars

\* a player on the NPC buyers page: the sell form
NextNpcBuyers ==
  \/ GetSessionResolved(JointLoads)
  \/ Logout
  \/ BuildingsRead(SeededReads)
  \/ ProcessRead(SeededReads)
  \/ MaterialsRead(SeededReads)
  \/ Navigate({"/npc-buyers"})
  \/ PlayerCheckReturn
  \/ LoadDataReturn(Inventories(SeededIds), {<< >>}, NpcBuyers(CatIds))
  \/ SelectBuyer
  \/ TypeSellAmount(Typed)
  \/ HandleSellMax

SpecNpcBuyers == Init /\ [][NextNpcBuyers]_vars

\* the NPC buyers page with the sale: the amount field holds what selecting
\* a buyer and Sell Max put there; the sale reads no catalogue, whose reads
\* stay in flight here
NextSell ==
  \/ GetSessionResolved(JointLoads)
  \/ Logout
  \/ Navigate({"/npc-buyers"})
  \/ PlayerCheckReturn
  \/ LoadDataReturn(Inventories(SeededIds), {<< >>}, NpcBuyers(SeededIds))
  \/ SelectBuyer
  \/ HandleSellMax
  \/ HandleSell
  \/ RpcReturn

SpecSell == Init /\ [][NextSell]_vars

\* the buildings page with construction and demolition
NextBuildings ==
  \/ GetSessionResolved(JointLoads)
  \/ Logout
  \/ BuildingsRead(SeededReads)
  \/ Navigate({"/buildings"})
  \/ PlayerCheckReturn
  \/ LoadDataReturn({<< >>}, BuildingRows(SeededIds), {<< >>})
  \/ SelectPlayerBuilding
  \/ SelectCatalogueBuilding
  \/ HandleBuild
  \/ HandleDemolish
  \/ RpcReturn

SpecBuildings == Init /\ [][NextBuildings]_vars

\* the processes page: selecting a building and installing a process
NextProcesses ==
  \/ GetSessionResolved(JointLoads)
  \/ Logout
  \/ BuildingsRead(SeededReads)
  \/ ProcessRead(ProcessReads)
  \/ Navigate({"/processes"})
  \/ PlayerCheckReturn
  \/ LoadDataReturn({<< >>}, TwoBuildings, {<< >>})
  \/ HandleBuildingSelect
  \/ InstalledDetailsReturn
  \/ AllowedProcessesReturn
  \/ HandleProcessSelect
  \/ ProcessDetailsReturn
  \/ HandleInstall
  \/ InstallDetailsReturn
  \/ RpcReturn

SpecProcesses == Init /\ [][NextProcesses]_vars

\* the processes page: running and uninstalling the process of a building
\* whose row changes from one reload to the next
NextRun ==
  \/ GetSessionResolved(JointLoads)
  \/ Navigate({"/processes"})
  \/ PlayerCheckReturn
  \/ LoadDataReturn({<< >>}, OneBuilding, {<< >>})
  \/ HandleBuildingSelectUpTo(RunPending)
  \/ InstalledDetailsReturn
  \/ AllowedProcessesReturn
  \/ TypeRunCount(RunCounts)
  \/ HandleUninstall
  \/ HandleRun
  \/ RpcReturn

SpecRun == Init /\ [][NextRun]_vars

\* the four pages with a game action and the actions' returns; the detail
\* fetches of the processes page stay in flight
NextActions ==
  \/ GetSessionResolved(JointLoads)
  \/ BuildingsRead(SeededReads)
  \/ ProcessRead(SeededReads)
  \/ MaterialsRead(SeededReads)
  \/ Navigate({"/dashboard", "/npc-buyers", "/buildings", "/processes"})
  \/ PlayerCheckReturn
  \/ LoadDataReturn(SeededInventory, SeededBuildings, SeededBuyers)
  \/ SelectMaterial
  \/ HandleDispose
  \/ DisposeReturn
  \/ SelectBuyer
  \/ HandleSell
  \/ SelectPlayerBuilding
  \/ SelectCatalogueBuilding
  \/ HandleBuild
  \/ HandleDemolish
  \/ HandleBuildingSelect
  \/ AllowedProcessesReturn
  \/ HandleInstall
  \/ HandleRun
  \/ RpcReturn

SpecActions == Init /\ [][NextActions]_vars

\* two accounts in one browser: the first is signed in from the start or
\* not at all, the second, which has no player record, signs in on the
\* login page or arrives through onAuthStateChange
NextAccounts ==
  \/ GetSessionResolved(JointLoads)
  \/ AuthStateChangeTo(Newcomers, JointLoads)
  \/ LoginSuccessOf(Newcomers, JointLoads)
  \/ Logout
  \/ BuildingsRead(SeededReads)
  \/ ProcessRead(SeededReads)
  \/ MaterialsRead(SeededReads)
  \/ Navigate({"/dashboard", "/buildings"})
  \/ PlayerCheckReturn

SpecAccounts == Init /\ [][NextAccounts]_vars

\* the routes with the failure of the sign-out call
NextSignOut ==
  \/ NextRoute
  \/ LogoutRejected

SpecSignOut == Init /\ [][NextSignOut]_vars

\* two pages and the refresh orchestrator: the session restored and ended,
\* the catalogue load, navigation, the pages' loadData and refreshAll
NextViews ==
  \/ GetSessionResolved(JointLoads)
  \/ Logout
  \/ BuildingsRead(SeededReads)
  \/ ProcessRead(SeededReads)
  \/ MaterialsRead(SeededReads)
  \/ Navigate({"/dashboard", "/processes"})
  \/ PlayerCheckReturn
  \/ LoadDataReturn(SeededInventory, PlayerBuildings(SeededIds), {<< >>})
  \/ HandleRefreshIdle(JointSweeps)
  \/ ResolverReturn
  \/ RefreshAllFinish

SpecViews == Init /\ [][NextViews]_vars

\* everything that could touch the refresh timestamp: the session restored
\* and ended, login, the catalogue load, the dashboard's loadData, a game
\* action (dispose) and refreshAll
NextFrame ==
  \/ GetSessionResolved(JointLoads)
  \/ LoginSuccess(JointLoads)
  \/ LoginFailure
  \/ Logout
  \/ BuildingsRead(SeededReads)
  \/ ProcessRead(SeededReads)
  \/ MaterialsRead(SeededReads)
  \/ Navigate({"/dashboard"})
  \/ PlayerCheckReturn
  \/ LoadDataReturn(SeededInventory, {<< >>}, {<< >>})
  \/ SelectMaterial
  \/ HandleDispose
  \/ DisposeReturn
  \/ HandleRefreshIdle(JointSweeps)
  \/ ResolverReturn
  \/ RefreshAllFinish

SpecFrame == Init /\ [][NextFrame]_vars

\* The dashboard alone, with successful disposals and refreshes that both
\* start reloads of it.
NextReloads ==
  \/ GetSessionResolved(JointLoads)
  \/ BuildingsRead(SeededReads)
  \/ ProcessRead(SeededReads)
  \/ MaterialsRead(SeededReads)
  \/ Navigate({"/dashboard"})
  \/ PlayerCheckReturn
  \/ LoadDataReturn(SeededInventory, {<< >>}, {<< >>})
  \/ SelectMaterial
  \/ HandleDispose
  \/ DisposeReturn
  \/ HandleRefreshIdle(JointSweeps)
  \/ ResolverReturn
  \/ RefreshAllFinish

SpecReloads == InitFollowed /\ [][NextReloads]_vars

(***************************************************************************)
(* Properties.                                                             *)
(***************************************************************************)
\* the order section 4.2 of the specification gives
ClaimedOrder ==
  << "resolve_scheduled_cash", "finish_construction",
     "finish_storage_extension_construction", "resolve_building_processes",
     "resolve_process_runs" >>

IsPrefix(s, t) == Len(s) <= Len(t) /\ s = SubSeq(t, 1, Len(s))

Finished(sw) == sw.pc \in {"resolved", "done"}

\* C1: every refreshAll() calls the five resolvers in the order
\* resolve_scheduled_cash, finish_construction,
\* finish_storage_extension_construction, resolve_building_processes,
\* resolve_process_runs: at any time the calls made so far are a prefix of
\* that order, and once runResolvers has returned they are exactly that order.
C1_ResolverOrder ==
  \A s \in 1..Len(sweeps) :
    /\ IsPrefix(sweeps[s].issued, ClaimedOrder)
    /\ Finished(sweeps[s]) => sweeps[s].issued = ClaimedOrder

\* a sweep that made all five calls, not all of them failing
C1_Witness ==
  \E s \in 1..Len(sweeps) :
    /\ sweeps[s].pc = "resolved"
    /\ ~sweeps[s].allFailed
    /\ Len(sweeps[s].issued) = 5

\* C2: refreshAll() sets lastRefresh exactly once per invocation and only
\* after all five resolver calls have returned, also when all five failed:
\* a sweep has one timestamp update when it is done and none before, and
\* lastRefresh has changed once per finished invocation.
C2_StampOncePerSweep ==
  /\ \A s \in 1..Len(sweeps) :
       /\ sweeps[s].stamps = (IF sweeps[s].pc = "done" THEN 1 ELSE 0)
       /\ sweeps[s].stamps > 0 =>
            sweeps[s].returned = 5 /\ Len(sweeps[s].issued) = 5
  /\ lastRefresh = Cardinality({ s \in 1..Len(sweeps) : sweeps[s].pc = "done" })

\* a finished refreshAll() whose five resolver calls all failed
C2_Witness ==
  \E s \in 1..Len(sweeps) :
    /\ sweeps[s].pc = "done"
    /\ sweeps[s].allFailed
    /\ sweeps[s].stamps = 1
    /\ lastRefresh >= 1

\* C3: a failed resolver call (error result or thrown error) does not abort
\* the sweep: while fewer than five calls have returned the sweep is still
\* running with a further call made, and it only ends after five calls.
C3_NoAbort ==
  \A s \in 1..Len(sweeps) :
    /\ sweeps[s].returned < 5 =>
         sweeps[s].pc = "running" /\ Len(sweeps[s].issued) > sweeps[s].returned
    /\ Finished(sweeps[s]) =>
         Len(sweeps[s].issued) = 5 /\ sweeps[s].returned = 5

\* a sweep in which every call so far failed and the next one was made
C3_Witness ==
  \E s \in 1..Len(sweeps) :
    /\ sweeps[s].pc = "running"
    /\ sweeps[s].allFailed
    /\ sweeps[s].returned = 4
    /\ Len(sweeps[s].issued) = 5

\* C4: within one sweep at most one resolver call is in flight.
C4_Sequential ==
  \A s \in 1..Len(sweeps) :
    Len(sweeps[s].issued) - sweeps[s].returned \in {0, 1}

\* a sweep between its second and third resolver call's return
C4_Witness ==
  \E s \in 1..Len(sweeps) :
    /\ sweeps[s].returned = 2
    /\ Len(sweeps[s].issued) = 3

\* the map holds the rows, each under its id, and nothing else
HoldsExactly(map, rows) ==
  /\ DOMAIN map = Ids(rows)
  /\ \A i \in 1..Len(rows) : Get(map, rows[i].id) = rows[i]

\* C5: a read that succeeded leaves its catalogue holding exactly the rows of
\* that read; a read that failed leaves its catalogue as it was; and when
\* loadCatalogues ends, cataloguesLoaded is true whatever the results were
\* and each catalogue holds exactly the rows of its latest successful read
\* (nothing, if no read of it has succeeded since the cache was cleared).
C5_LoadResult ==
  [][\A k \in Kinds :
       (ev'.op = "read" /\ ev'.kind = k) =>
         /\ IF ev'.ok
              THEN HoldsExactly(Cat(k)', lastGood'[k].rows)
              ELSE Cat(k)' = Cat(k)
         /\ k = "materials" =>
              /\ cataloguesLoaded'
              /\ \A j \in Kinds : HoldsExactly(Cat(j)', lastGood'[j].rows)]_vars

\* a load ended with its materials read failed: loaded is true, the
\* buildings read's rows are cached, the materials map is still empty
C5_Witness ==
  /\ ev.op = "read" /\ ev.kind = "materials" /\ ~ev.ok
  /\ cataloguesLoaded
  /\ buildingsCatalogue # EmptyMap
  /\ materialsCatalogue = EmptyMap

\* C6: once the catalogues are loaded, looking up an id of the last
\* successful read of a catalogue gives the row with that id, and looking up
\* any other id (in particular one the backend never returned) gives
\* undefined.
C6_Lookup ==
  cataloguesLoaded =>
    \A k \in Kinds : \A id \in LookupIds :
      IF id \in Ids(lastGood[k].rows)
        THEN /\ Get(Cat(k), id).id = id
             /\ \E i \in 1..Len(lastGood[k].rows) :
                  Get(Cat(k), id) = lastGood[k].rows[i]
        ELSE Get(Cat(k), id) = NotFound

\* loaded, with a catalogue whose last read had rows
C6_Witness ==
  /\ cataloguesLoaded
  /\ user # NoUser
  /\ \E k \in Kinds :
       /\ lastGood[k].known
       /\ Len(lastGood[k].rows) >= 1
       /\ Get(Cat(k), lastGood[k].rows[1].id) = lastGood[k].rows[1]

\* C7: when the user becomes null, all three maps are emptied and
\* cataloguesLoaded is reset, so every lookup gives undefined.
C7_ClearOnSessionEnd ==
  [][(user # NoUser /\ user' = NoUser) =>
       /\ ~cataloguesLoaded'
       /\ \A k \in Kinds : \A id \in LookupIds :
            Get(Cat(k)', id) = NotFound]_vars

\* the session has just ended and there was something to clear
C7_Witness ==
  /\ ev.op = "clear" /\ ev.ok
  /\ user = NoUser
  /\ \A k \in Kinds : Cat(k) = EmptyMap

\* C8 as stated: when the session ends, the maps are emptied and lastRefresh
\* is back to null.
C8_Original ==
  [][(user # NoUser /\ user' = NoUser) =>
       /\ lastRefresh' = 0
       /\ \A k \in Kinds : Cat(k)' = EmptyMap]_vars

\* C8 amended: when the session ends, the three maps are emptied and
\* cataloguesLoaded is reset, and lastRefresh keeps its value.
C8_ClearKeepsTimestamp ==
  [][(user # NoUser /\ user' = NoUser) =>
       /\ \A k \in Kinds : Cat(k)' = EmptyMap
       /\ cataloguesLoaded' = FALSE
       /\ lastRefresh' = lastRefresh]_vars

\* signed out after a refresh: the cache is empty, the timestamp is not
C8_Witness ==
  /\ ev.op = "clear"
  /\ user = NoUser
  /\ lastRefresh >= 1
  /\ \A k \in Kinds : Cat(k) = EmptyMap

\* C9: within one session (from the user becoming non-null until it becomes
\* null) loadCatalogues is started once.
C9_OneLoadPerSession == loadsThisSession <= 1

\* C10: when a second successful read of a catalogue follows a first, the
\* catalogue equals the second read: an id of the first read that the second
\* does not have is no longer in the map.
C10_ReplaceNotMerge ==
  [][\A k \in Kinds :
       (ev'.op = "read" /\ ev'.kind = k /\ ev'.ok /\ lastGood[k].known) =>
         /\ \A id \in Ids(lastGood[k].rows) :
              id \notin Ids(lastGood'[k].rows) =>
                Get(Cat(k)', id) = NotFound
         /\ DOMAIN Cat(k)' = Ids(lastGood'[k].rows)]_vars

\* a second read replaced a map that had an id the read does not have, and
\* brought rows of its own
C10_Witness ==
  /\ ev.op = "read" /\ ev.ok /\ ev.dropped
  /\ Cat(ev.kind) # EmptyMap

\* what ProtectedRoute shows in the current state
Shown ==
  ProtectedRouteRender(user, loading, checkingPlayer, playerExists, pathname)

\* C20 as stated: no page under ProtectedRoute is shown without a user;
\* whenever ProtectedRoute is mounted, auth loading has finished and the user
\* is null, it redirects to /login (the redirect leaves the protected path
\* at once, so no state has ProtectedRoute mounted with loading finished and
\* no user); while auth is loading it shows the placeholder.
C20_Original ==
  /\ Outlet # "none" => user # NoUser
  /\ ~(pathname \in ProtectedPaths /\ ~loading /\ user = NoUser)
  /\ (pathname \in ProtectedPaths /\ loading) => Shown = "loading"

\* C20 amended: no page under ProtectedRoute is shown without a user or
\* while auth is loading; with loading finished and no user ProtectedRoute
\* has redirected to /login unless a player check is still in flight, and
\* then it shows the loading placeholder; while auth is loading it shows
\* the placeholder and the location stays on the protected path.
C20_NoProtectedContent ==
  /\ [](/\ Outlet # "none" => (user # NoUser /\ ~loading)
        /\ (pathname \in ProtectedPaths /\ ~loading /\ user = NoUser) =>
             (checkingPlayer /\ playerChecks # << >> /\ Shown = "loading")
        /\ (pathname \in ProtectedPaths /\ loading) => Shown = "loading")
  /\ [][(pathname \in ProtectedPaths /\ loading') =>
          pathname' \in ProtectedPaths]_vars

\* the session ended while ProtectedRoute was checking the player: the
\* placeholder is shown, the location is still the protected page
C20_Witness ==
  /\ pathname = "/dashboard"
  /\ ~loading
  /\ user = NoUser
  /\ checkingPlayer
  /\ Shown = "loading"

\* the catalogue ids that the player-owned rows a page has fetched refer to
Referenced(kind) ==
  CASE kind = "materials" ->
         { materials[i].res_id : i \in 1..Len(materials) }
    [] kind = "buildings" ->
         { buildings[i].building_id : i \in 1..Len(buildings) }
    [] kind = "process" ->
         { buildings[i].b_proc_installed : i \in 1..Len(buildings) } \ {0}

\* C11 as stated: whenever cataloguesLoaded is true, every building_id,
\* installed proc_id and res_id of a fetched player-owned row has an entry in
\* its catalogue map.
C11_Original ==
  cataloguesLoaded =>
    \A k \in Kinds : \A id \in Referenced(k) : Get(Cat(k), id) # NotFound

\* C11 amended: whenever cataloguesLoaded is true, an id of a fetched
\* player-owned row has an entry in its catalogue map exactly when a read of
\* that catalogue has succeeded since the cache was last cleared, and the
\* entry is the one with that id; when the catalogue's read failed the
\* lookup misses although cataloguesLoaded is true.
C11_ResolvesWhenRead ==
  cataloguesLoaded =>
    \A k \in Kinds : \A id \in Referenced(k) :
      IF lastGood[k].known
        THEN Get(Cat(k), id).id = id
        ELSE Get(Cat(k), id) = NotFound

\* catalogues loaded with the process read failed: the fetched building's
\* building_id has its entry, its installed process has none
C11_Witness ==
  /\ cataloguesLoaded
  /\ Outlet = "/processes"
  /\ \E i \in 1..Len(buildings) :
       /\ Get(buildingsCatalogue, buildings[i].building_id) # NotFound
       /\ buildings[i].b_proc_installed # 0
       /\ Get(processCatalogue, buildings[i].b_proc_installed) = NotFound

\* C12 as stated, for the dashboard: every material stack that
\* get_player_materials returned is a row of the inventory the dashboard
\* page shows, whether or not its res_id is in the materials catalogue, and
\* the row shows the catalogue name or, without an entry, the stack's code.
C12_EveryStackShown ==
  (Outlet = "/dashboard" /\ DashboardRender = "page") =>
    \A i \in 1..Len(materials) :
      /\ \E j \in 1..Len(InventoryRows) : InventoryRows[j] = materials[i]
      /\ RowName(materials[i]) =
           (IF materials[i].res_id \in DOMAIN materialsCatalogue
              THEN materialsCatalogue[materials[i].res_id].name
              ELSE "res_code")

\* C13: the refresh timestamp changes only in the step in which a
\* refreshAll() whose runResolvers() has resolved after all five calls
\* returned goes on to setLastRefresh and ends; every other step (a
\* catalogue read, the clear, a page's loadData, the dispose handler and its
\* return, login, logout, navigation) leaves lastRefresh as it was.
C13_OnlyRefreshAll ==
  [][lastRefresh' # lastRefresh =>
       \E s \in 1..Len(sweeps) :
         /\ sweeps[s].pc = "resolved"
         /\ sweeps[s].returned = 5
         /\ Len(sweeps[s].issued) = 5
         /\ sweeps'[s].pc = "done"
         /\ Len(sweeps') = Len(sweeps)]_vars

\* the timestamp of one refreshAll() still there after catalogues were
\* loaded, a dispose succeeded and the reload it started is in flight
C13_Witness ==
  /\ lastRefresh = 1
  /\ \E s \in 1..Len(sweeps) : sweeps[s].pc = "done"
  /\ cataloguesLoaded
  /\ status = "success"
  /\ SumSeq(loadData) >= 1

\* the pages of App.tsx that fetch player-owned data
DataViews ==
  { "/dashboard", "/buildings", "/processes", "/npc-buyers", "/market",
    "/debug" }

C15_OverlapNotDeduplicated ==
  \A t \in 1..Len(sweeps) :
    sweeps[t].overlap =>
      /\ \A s \in 1..t :
           /\ IsPrefix(sweeps[s].issued, ClaimedOrder)
           /\ Len(sweeps[s].issued) - sweeps[s].returned \in {0, 1}
           /\ sweeps[s].pc = "done" =>
                /\ sweeps[s].issued = ClaimedOrder
                /\ sweeps[s].returned = 5
                /\ sweeps[s].stamps = 1
           /\ sweeps[s].pc # "done" => sweeps[s].stamps = 0
      /\ (\A s \in 1..Len(sweeps) : sweeps[s].pc = "done") =>
           lastRefresh = Len(sweeps)

\* two overlapping sweeps, both ended: two timestamps
C15_Witness ==
  /\ Len(sweeps) = 2
  /\ sweeps[2].overlap
  /\ sweeps[1].pc = "done" /\ sweeps[2].pc = "done"
  /\ sweeps[1].stamps = 1 /\ sweeps[2].stamps = 1
  /\ lastRefresh = 2

\* C16: in every state each catalogue map holds exactly the rows of one
\* finished read of that catalogue (the latest successful one since the
\* clear, or nothing), never part of a read; and a step that changes a map
\* either empties it in the clear or replaces it whole with the rows of the
\* read that has just succeeded.
C16_AtomicReplacement ==
  /\ [](\A k \in Kinds : HoldsExactly(Cat(k), lastGood[k].rows))
  /\ [][\A k \in Kinds :
          Cat(k)' # Cat(k) =>
            \/ ev'.op = "clear" /\ Cat(k)' = EmptyMap
            \/ /\ ev'.op = "read" /\ ev'.kind = k /\ ev'.ok
               /\ HoldsExactly(Cat(k)', lastGood'[k].rows)]_vars

\* a second read of a catalogue is in flight while its map still holds both
\* rows of the read before
C16_Witness ==
  \E k \in Kinds :
    /\ loads[k] > 0
    /\ lastGood[k].known
    /\ Len(lastGood[k].rows) = 2
    /\ Cardinality(DOMAIN Cat(k)) = 2

\* C17 as stated: no call of the game client throws to its caller; in
\* particular logout() returns when the SDK's signOut throws. The state
\* after a step in which a client call rejected is labelled "rejected".
C17_NeverThrows == ev.op # "rejected"

\* the amount of the player's stack of a material, 0 without a stack
Held(res) ==
  LET S == { i \in 1..Len(materials) : materials[i].res_id = res } IN
  IF S = {} THEN 0
  ELSE materials[CHOOSE i \in S : \A j \in S : i <= j].amount

\* C18: a call of handleSellMax with a buyer selected sets the sell-amount
\* field to the decimal text of the smaller of the amount the player holds
\* of the buyer's material (0 without a stack) and the buyer's
\* current_demand, and that text reads back as that number; with no buyer
\* selected the call leaves the field as it was and sets an error status.
C18_SellMax ==
  [][ev'.op = "handleSellMax" =>
       IF selectedBuyer # NoBuyer
         THEN LET held == Held(selectedBuyer.buy_res_id)
                  demand == selectedBuyer.current_demand
                  least == IF held <= demand THEN held ELSE demand
              IN /\ sellAmount' = String(least)
                 /\ parseInt(sellAmount') = Number(least)
                 /\ least <= held /\ least <= demand
         ELSE /\ sellAmount' = sellAmount
              /\ status' = "error"]_vars

\* Sell Max with a demand of 1 and 2 held: the field shows 1
C18_Witness ==
  /\ ev.op = "handleSellMax"
  /\ selectedBuyer # NoBuyer
  /\ selectedBuyer.current_demand = 1
  /\ Held(selectedBuyer.buy_res_id) = 2
  /\ sellAmount = << "1" >>

\* C19: a step that calls the dispose RPC calls it with the res_id of the
\* selected stack and the number n read from the amount field, and only
\* with a stack selected, n a number from 1 to the selected stack's amount,
\* and the confirmation accepted; a step in which the RPC returns starts one
\* more loadData of the dashboard when it succeeded and none when it failed.
C19_Dispose ==
  [][(Outlet' = Outlet) =>
       /\ Len(disposeCalls') > Len(disposeCalls) =>
            LET n == parseInt(disposeAmount) IN
            /\ selectedMaterial # NoStack
            /\ ~n.nan
            /\ n.val \in 1..selectedMaterial.amount
            /\ disposeCalls' = Append(disposeCalls,
                 [res_id |-> selectedMaterial.res_id, amount |-> n.val])
            /\ ev'.op = "dispose_resources" /\ ev'.ok
            /\ loadData' = loadData
       /\ Len(disposeCalls') < Len(disposeCalls) =>
            IF status' = "success"
              THEN /\ loadData'[1] = loadData[1] + 1
                   /\ \A i \in 2..Len(loadData) : loadData'[i] = loadData[i]
                   /\ selectedMaterial' = NoStack
              ELSE /\ loadData' = loadData
                   /\ status' = "error"
                   /\ selectedMaterial' = selectedMaterial]_vars

\* a dispose of 1 of a stack of 2 has succeeded: the selection is cleared
\* and the reload is in flight
C19_Witness ==
  /\ Outlet = "/dashboard"
  /\ status = "success"
  /\ selectedMaterial = NoStack
  /\ disposeCalls = << >>
  /\ SumSeq(loadData) >= 1
  /\ \E i \in 1..Len(materials) : materials[i].amount = 2

\* C25 as stated: while user is null the three catalogue maps are empty and
\* cataloguesLoaded is false, also when reads of a loadCatalogues that was
\* started before the session ended return afterwards.
C25_NoRepopulation ==
  user = NoUser =>
    /\ ~cataloguesLoaded
    /\ \A k \in Kinds : Cat(k) = EmptyMap

\* C30: a step that calls sell_to_npc calls it for the selected buyer with
\* the amount a read from the field, and only when 0 < a, a is at most the
\* selected buyer's current_demand and at most the amount the player holds
\* of the buyer's material in the loaded inventory; and a press of Sell
\* while the field reads 0 (what Sell Max leaves without inventory or
\* demand) calls nothing and sets the error status.
C30_SellGuards ==
  [][/\ (Outlet' = Outlet /\ Len(rpcCalls') > Len(rpcCalls)
           /\ rpcCalls'[Len(rpcCalls')].name = "sell_to_npc") =>
          LET a == parseInt(sellAmount) IN
          /\ selectedBuyer # NoBuyer
          /\ ~a.nan
          /\ 0 < a.val
          /\ a.val <= selectedBuyer.current_demand
          /\ a.val <= Held(selectedBuyer.buy_res_id)
          /\ rpcCalls' = Append(rpcCalls,
               [name |-> "sell_to_npc",
                args |-> << selectedBuyer.npc_buyer_id, a.val >>])
          /\ ev'.op = "handleSell" /\ ev'.ok
     /\ (ev'.op = "handleSell" /\ parseInt(sellAmount) = Number(0)) =>
          /\ rpcCalls' = rpcCalls
          /\ status' = "error"
          /\ ~ev'.ok]_vars

\* Sell was pressed after Sell Max left 0 in the field for a buyer without
\* demand: nothing was sent, the status is the error
C30_Witness ==
  /\ ev.op = "handleSell" /\ ~ev.ok
  /\ selectedBuyer # NoBuyer
  /\ selectedBuyer.current_demand = 0
  /\ Held(selectedBuyer.buy_res_id) > 0
  /\ sellAmount = << "0" >>
  /\ status = "error"
  /\ rpcCalls = << >>

\* C21 as stated: a handleDemolish step that sends no RPC shows an error
\* status, the step where the confirmation is declined included
C21_Original ==
  [][ev'.op = "handleDemolish" /\ rpcCalls' = rpcCalls
       => status' = "error"]_vars

\* C21 (amended): a demolish_building call is sent only by handleDemolish,
\* for the selected building, whose status is 'unconfigured' and which has
\* no process installed, after the confirmation, with the building's
\* this_building_id; when a test fails no RPC is sent and the status is an
\* error; when only the confirmation is declined no RPC is sent and the
\* status is left as it was
C21_DemolishGuards ==
  [][/\ (Outlet' = Outlet /\ Len(rpcCalls') > Len(rpcCalls)
          /\ rpcCalls'[Len(rpcCalls')].name = "demolish_building"
          => /\ ev'.op = "handleDemolish" /\ ev'.ok
             /\ selectedBuilding # NoBuilding
             /\ selectedBuilding.b_current_status = "unconfigured"
             /\ selectedBuilding.b_proc_installed = 0
             /\ rpcCalls' = Append(rpcCalls,
                  [name |-> "demolish_building",
                   args |-> << selectedBuilding.this_building_id >>]))
      /\ (ev'.op = "handleDemolish"
          /\ (\/ selectedBuilding = NoBuilding
              \/ selectedBuilding.b_current_status # "unconfigured"
              \/ selectedBuilding.b_proc_installed # 0)
          => rpcCalls' = rpcCalls /\ status' = "error")
      /\ (ev'.op = "handleDemolish" /\ ~ev'.ok
          /\ selectedBuilding # NoBuilding
          /\ selectedBuilding.b_current_status = "unconfigured"
          /\ selectedBuilding.b_proc_installed = 0
          => rpcCalls' = rpcCalls /\ status' = status)]_vars

\* a demolition was confirmed and sent for the selected building
C21_Witness ==
  /\ ev.op = "handleDemolish" /\ ev.ok
  /\ selectedBuilding.b_current_status = "unconfigured"
  /\ rpcCalls =
       << [name |-> "demolish_building",
           args |-> << selectedBuilding.this_building_id >>] >>

\* the loaded row with the given this_building_id, null when there is none
RowOf(id) ==
  IF \E i \in 1..Len(buildings) : buildings[i].this_building_id = id
    THEN buildings[CHOOSE i \in 1..Len(buildings) :
                     buildings[i].this_building_id = id]
    ELSE NoBuilding

\* C27: the selected process is one the backend allows for the kind of the
\* selected building, and every install_process call in flight names a
\* building and a process allowed for that building's kind
C27_SelectedProcessAllowed ==
  /\ (selectedBuilding # NoBuilding /\ selectedProcess # NotFound
        => selectedProcess.id \in AllowedTable(selectedBuilding.building_id))
  /\ \A i \in 1..Len(rpcCalls) :
       rpcCalls[i].name = "install_process"
         => rpcCalls[i].args[2]
              \in AllowedTable(RowOf(rpcCalls[i].args[1]).building_id)

\* C28: run_process is sent only by handleRun, for the selected building
\* with a process installed whose status is 'idle', with the count that
\* parseInt reads from the field when it is greater than 0;
\* uninstall_process only by handleUninstall for a selected building with
\* an idle process; when one of these tests fails the handler sends no RPC
\* and sets an error status
C28_RunGuards ==
  [][/\ (Outlet' = Outlet /\ Len(rpcCalls') > Len(rpcCalls)
          /\ rpcCalls'[Len(rpcCalls')].name = "run_process"
          => /\ ev'.op = "handleRun" /\ ev'.ok
             /\ selectedBuilding # NoBuilding
             /\ selectedBuilding.b_proc_installed # 0
             /\ selectedBuilding.b_proc_status = "idle"
             /\ ~parseInt(runCount).nan /\ parseInt(runCount).val > 0
             /\ rpcCalls' = Append(rpcCalls,
                  [name |-> "run_process",
                   args |-> << selectedBuilding.this_building_id,
                               parseInt(runCount).val >>]))
      /\ (Outlet' = Outlet /\ Len(rpcCalls') > Len(rpcCalls)
          /\ rpcCalls'[Len(rpcCalls')].name = "uninstall_process"
          => /\ ev'.op = "handleUninstall" /\ ev'.ok
             /\ selectedBuilding # NoBuilding
             /\ selectedBuilding.b_proc_installed # 0
             /\ selectedBuilding.b_proc_status = "idle"
             /\ rpcCalls' = Append(rpcCalls,
                  [name |-> "uninstall_process",
                   args |-> << selectedBuilding.this_building_id >>]))
      /\ (ev'.op \in {"handleRun", "handleUninstall"}
          /\ (\/ selectedBuilding = NoBuilding
              \/ selectedBuilding.b_proc_installed = 0
              \/ selectedBuilding.b_proc_status # "idle")
          => rpcCalls' = rpcCalls /\ status' = "error")
      /\ (ev'.op = "handleRun"
          /\ (parseInt(runCount).nan \/ parseInt(runCount).val <= 0)
          => rpcCalls' = rpcCalls /\ status' = "error")]_vars

\* a run of two was sent for the selected building
C28_Witness ==
  /\ ev.op = "handleRun" /\ ev.ok
  /\ runCount = << "2" >>
  /\ rpcCalls = << [name |-> "run_process",
                    args |-> << selectedBuilding.this_building_id, 2 >>] >>

\* C29: while no reload is in flight, the selected building is the loaded
\* row with its this_building_id
C29_SelectionFollowsReload ==
  (Outlet = "/processes" /\ SumSeq(loadData) = 0
     /\ selectedBuilding # NoBuilding
     /\ RowOf(selectedBuilding.this_building_id) # NoBuilding)
    => selectedBuilding = RowOf(selectedBuilding.this_building_id)

\* C22: a game-action RPC that returns a failure (dispose_resources,
\* sell_to_npc, build_new_building, demolish_building, install_process,
\* run_process) changes the status to an error and nothing else: the loaded
\* data, the loading and error flags, the reloads in flight, the selections
\* and fields, the catalogue cache, the session and the route are as they
\* were, and the page is still rendered
C22_FailureChangesStatusOnly ==
  [][ev'.op = "returned" /\ ~ev'.ok
       => /\ status' = "error"
          /\ UNCHANGED fetchVars
          /\ UNCHANGED <<selectedMaterial, disposeAmount, selectedBuyer,
                         sellAmount, selectedBuilding,
                         selectedCatalogueBuilding, allowedProcesses,
                         selectedProcess, processDetails, runCount, pending>>
          /\ UNCHANGED <<authVars, cacheVars, loadVars, lastRefresh, sweeps,
                         routeVars>>
          /\ Len(rpcCalls') + Len(disposeCalls')
               = Len(rpcCalls) + Len(disposeCalls) - 1
          /\ Outlet' = Outlet /\ Outlet # "none"]_vars

\* a demolition has failed: the building is still selected and listed, and
\* no reload is in flight
C22_Witness ==
  /\ ev = Ev("returned", "demolish_building", FALSE, FALSE)
  /\ status = "error"
  /\ selectedBuilding # NoBuilding
  /\ buildings # << >>
  /\ SumSeq(loadData) = 0
  /\ BuildingsRender = "page"

\* C23: a signed-in user whose account has no player record is shown no
\* page under ProtectedRoute
C23_NoRecordNoPage ==
  user.uid \in NoRecordUids => Outlet = "none"

\* C24: when a signed-in user's only player check in flight comes back
\* without a player record, the redirects end: no further check is in
\* flight and ProtectedRoute is not left waiting for one
C24_RedirectSettles ==
  [][(ev'.op = "checkPlayer" /\ ~ev'.ok /\ user # NoUser /\ ~loading
        /\ Len(playerChecks) = 1)
       => (playerChecks' = << >> /\ ~checkingPlayer')]_vars


\* C26: no response of a dashboard loadData call sets the materials after
\* the response of a call that was started later has set them: of
\* overlapping reloads the one started last decides what is shown, whatever
\* the order in which the responses arrive.
C26_LatestReloadShown == ~(ev.op = "loadData" /\ ev.kind = "behind")

\* the calls followed are the calls counted as waiting
ReloadOrderCounts ==
  FollowsReloads(reloadOrder, Outlet) =>
    \A i \in 1..Len(loadData) :
      0 \in ReloadsAt(reloadOrder, Outlet, i)
        \/ Cardinality(ReloadsAt(reloadOrder, Outlet, i)) = loadData[i]

====
